---------------------------- MODULE Spec2Model ----------------------------
(***************************************************************************)
(* Connection and transport core of Komodo (Core <-> Periphery).           *)
(*                                                                         *)
(* The module holds one state machine per subsystem; every subsystem has   *)
(* its own variables, initial predicate, next-state relation and           *)
(* specification, and leaves the variables of the others unchanged:        *)
(*                                                                         *)
(*   SpecConn     Core's connection registry (PeripheryConnections) with   *)
(*                inbound accept handlers, outbound supervisors, removals  *)
(*   SpecBuffer   Periphery's writer half over the BufferedReceiver        *)
(*   SpecRequest  Periphery's handle_request task                          *)
(*   SpecRpc      Core's PeripheryClient::request over a connection        *)
(*   SpecPoll     the timed poll loop of one request                       *)
(*   SpecLogin    ServerLoginFlow / ClientLoginFlow over one socket        *)
(*   SpecLoginType, SpecAttempt, SpecPrologue, SpecFrame                   *)
(*                the login type exchange, the attempted-key record, the   *)
(*                handshake prologue and the frame codec                   *)
(*   SpecOnboard  Core's onboarding of an unknown server                   *)
(*   SpecSocket   Core's handle_socket under the outbound supervisor       *)
(*   SpecReceiver Periphery's single receiver per Core                     *)
(*   SpecBail     bail_if_not_connected                                    *)
(*   SpecViewer   a terminal, its history and one viewer's forwarding     *)
(*   SpecTerminals  create_terminal and the terminal registry             *)
(*   SpecKeys     Periphery's key slot, RotatePrivateKey and Core's        *)
(*                RotateServerKeys                                         *)
(*   SpecOutbound Periphery's outbound connection handler                  *)
(*                                                                         *)
(* Async functions are cut at their await points: two awaits of one        *)
(* function are two steps, and other tasks may run in between.             *)
(***************************************************************************)
EXTENDS Integers, Sequences, FiniteSets, TLC

(***************************************************************************)
(* Bounds of the model.                                                    *)
(***************************************************************************)
\* Connection tasks (inbound accept handlers and outbound spawns) for peer P.
MaxHandlers == 2
\* Per-request channel ids that requests may register in a channel map.
MaxCids == 1
\* Messages handed to Periphery's outbound channel.
MaxMsgs == 3
\* Sockets established, one after the other, for one Core.
MaxSockets == 3
\* Requests Periphery receives (one channel id each).
MaxRequests == 2
\* In-progress pings one request task of Periphery may send.
MaxPings == 2
\* Requests Core issues to one peer through PeripheryClient::request.
MaxRpcs == 2
\* Times the connection of the peer drops.
MaxDrops == 1
\* Frames the peers of the login wrappers send in all.
MaxPeerFrames == 2
\* Logins for one server whose key reaches validate().
MaxLogins == 2
\* Longest host and query of a connection's identifiers, in bytes.
MaxIdentLen == 1
\* Longest payload of a message, in bytes.
MaxPayload == 1
\* Inbound upgrade requests Core handles.
MaxUpgrades == 2
\* Latest timestamp.
MaxTime == 2
\* Upgrades of one Core that reach the Periphery handler.
MaxCoreSockets == 2
\* Concurrent callers of bail_if_not_connected.
MaxCallers == 2
\* Bytes the ring history holds (MAX_BYTES, scaled down).
MaxHistory == 2
\* Calls of create_terminal.
MaxCreates == 3
\* Rotations of the private key, and readers of the key slot.
MaxRotations == 2
MaxKeyReaders == 2
\* Connection attempts of Periphery's outbound handler.
MaxOutbound == 3

Handlers == 1..MaxHandlers
Cids == 1..MaxCids
\* "No connection": the registry has no entry, or a lookup returned None.
NoConn == 0
\* A connection registered by an earlier inbound accept whose task has ended.
Old == MaxHandlers + 1
Conns == Handlers \cup {Old}

VARIABLES
  \* ---- SpecConn: bin/core/src/connection -------------------------------
  registry,    \* PeripheryConnections entry of peer P: a connection or NoConn
  created,     \* the PeripheryConnection objects constructed so far
  address,     \* args.address.is_some(): TRUE for Core -> Periphery
  cancelled,   \* connection -> its CancellationToken is cancelled
  connected,   \* connection -> its AtomicBool
  chanOf,      \* connection -> identity of its Arc<ConnectionChannels>
  errOf,       \* connection -> identity of its Arc<RwLock<Option<Serror>>>
  chanMap,     \* channel-map object -> the channel ids it holds
  errCell,     \* error-cell object -> "err" if an error is cached, else "none"
  hpc,         \* task -> its position
  hseen,       \* task -> the connection its duplicate check looked at
  removed,     \* the connections PeripheryConnections::remove took out
  hresp        \* task -> the HTTP answer of the accept

connVars == <<registry, created, address, cancelled, connected, chanOf,
              errOf, chanMap, errCell, hpc, hseen, removed, hresp>>

VARIABLES
  \* ---- SpecBuffer: lib/transport/src/channel.rs, periphery handle_socket -
  bqueue,      \* the mpsc channel behind the BufferedReceiver
  buffer,      \* BufferedReceiver.buffer: a message, or NoMsg for None
  produced,    \* messages sent into the channel so far
  sockets,     \* sockets established so far
  sockUp,      \* handle_socket is running on the latest socket
  written,     \* frames the writer has written to the latest socket
  wpc,         \* writer half: "recv" (at receiver.recv) or "send"
  wmsg,        \* writer half: the copy it hands to ws_write.send
  owed         \* the frame the writer held when the last socket went down

bufVars == <<bqueue, buffer, produced, sockets, sockUp, written, wpc, wmsg,
             owed>>

VARIABLES
  \* ---- SpecRequest: bin/periphery/src/connection/mod.rs handle_request --
  rstate,      \* request -> position of the task handle_request spawned
  rpayload,    \* request -> what its Request frame carried
  emitted      \* request -> the frames its task sent on the request's channel

reqVars == <<rstate, rpayload, emitted>>

VARIABLES
  \* ---- SpecRpc: bin/core/src/periphery/mod.rs PeripheryClient::request ---
  linkUp,      \* the peer's connection is connected (handle_socket runs)
  drops,       \* times the connection dropped
  channels,    \* the ConnectionChannels map: ids whose Sender it holds
  outbound,    \* Request frames in the connection's channel, not yet written
  onWire,      \* request -> its Request frame was written to a socket
  qpc,         \* request -> position of request()
  qresult,     \* request -> what request() returned, "none" while running
  inbox,       \* request -> frames in its response channel, not yet polled
  hit,         \* request -> the connection dropped while it awaited a response
  sendFailed   \* ids for which handle_incoming_bytes' channel.send failed

rpcVars == <<linkUp, drops, channels, outbound, onWire, qpc, qresult, inbox,
             hit, sendFailed>>

VARIABLES
  \* ---- SpecPoll: the timing of the poll loop of one request() ------------
  pollResult,  \* what request() returned, "none" while it polls
  pollInbox,   \* frames in the response channel, not yet polled
  pollWaited,  \* seconds the sleep of the current poll has run
  pollClock,   \* seconds since the request was sent
  arrivals     \* the times, in seconds, at which frames reached the channel

pollVars == <<pollResult, pollInbox, pollWaited, pollClock, arrivals>>

VARIABLES
  \* ---- SpecLogin: lib/transport/src/auth.rs, one socket -------------------
  spc,         \* position of ServerLoginFlow::login (the responder)
  sres,        \* what it returned: "none", "Ok" or "Err"
  ssent,       \* frames the responder handed to socket.send, in order
  sread,       \* handshake messages the responder has read
  svalid,      \* what the responder's validator answered
  sclosed,     \* the responder closed the socket
  cpc,         \* position of ClientLoginFlow::login (the initiator)
  cres,        \* what it returned
  csent,       \* frames the initiator handed to socket.send, in order
  cread,       \* handshake messages the initiator has read
  cvalid,      \* what the initiator's validator answered
  cclosed,     \* the initiator closed the socket
  toServer,    \* frames on their way to the responder
  toClient     \* frames on their way to the initiator

loginVars == <<spc, sres, ssent, sread, svalid, sclosed, cpc, cres, csent,
               cread, cvalid, cclosed, toServer, toClient>>

VARIABLES
  \* ---- SpecLoginType: the login wrappers of an outbound (Core -> Periphery)
  \* connection, each against a peer that sends what and when it likes -----
  tpc,         \* position of Core's client_login
  tres,        \* what it returned: "none", "Ok" or "Err"
  tin,         \* frames that reached Core's socket, not yet received
  tshut,       \* Core's socket was closed by its peer
  kpc,         \* position of Periphery's handle_login
  kres,        \* what it returned
  kin,         \* frames that reached Periphery's socket, not yet received
  kshut,       \* Periphery's socket was closed by its peer
  peerSent     \* frames the peers have sent in all

loginTypeVars == <<tpc, tres, tin, tshut, kpc, kres, kin, kshut, peerSent>>

VARIABLES
  \* ---- SpecAttempt: PeripheryConnectionArgs::validate and the writes of
  \* info.attempted_public_key, for the record of one server -----------------
  pinned,      \* the server's configured periphery_public_key, "none" if unset
  astatus,     \* login -> "idle", "accepted" or "rejected" by validate
  aoffered,    \* login -> the public key it offered
  ainbound,    \* login -> it runs on an inbound (Periphery -> Core) socket
  asent,       \* login -> the final frame the login flow sent, "none" before
  aclosed,     \* login -> the login flow closed the socket
  dbTasks,     \* spawned update tasks that have not run yet
  dbRecord,    \* info.attempted_public_key of the server's record
  dbFailed,    \* logins whose update of the record failed
  lastSpawned  \* the value of the update task spawned last, "none" before

attemptVars == <<pinned, astatus, aoffered, ainbound, asent, aclosed,
                 dbTasks, dbRecord, dbFailed, lastSpawned>>

VARIABLES
  \* ---- SpecPrologue: ConnectionIdentifiers::hash on two connections --------
  idents,      \* connection -> its (host, query, accept, nonce)
  hashInput    \* connection -> the bytes fed to SHA-256, <<>> before hash()

prologueVars == <<idents, hashInput>>

VARIABLES
  \* ---- SpecFrame: encode and decode of one transport message -------------
  plain,       \* the DecodedTransportMessage handed to encode
  wire,        \* the EncodedTransportMessage bytes, <<>> before encode
  received     \* what decode made of the bytes, NotDecoded before decode

frameVars == <<plain, wire, received>>

VARIABLES
  \* ---- SpecOnboard: Core's inbound handler and the onboarding flow --------
  okey,        \* the onboarding key record: enabled, expires
  onow,        \* komodo_timestamp()
  oservers,    \* the Server records: name, id
  onboarded,   \* the onboarding key's onboarded list
  opc,         \* upgrade -> where its handler or onboarding task stands
  oquery,      \* upgrade -> its server query
  ohttp,       \* upgrade -> the handler's answer, "none" before
  osent,       \* upgrade -> frames the task sent to the initiator
  oclosed,     \* upgrade -> "open", "closed" by close(), "dropped" on return
  overdict,    \* upgrade -> the validator's verdict, and was the key used
  ofailed      \* upgrade -> the step that failed, "none" if none did

onboardVars == <<okey, onow, oservers, onboarded, opc, oquery, ohttp,
                 osent, oclosed, overdict, ofailed>>

VARIABLES
  \* ---- SpecSocket: an outbound connection's task and handle_socket ----
  suppc,       \* the spawned loop: "connect", "sleep", "login", "socket", "exited"
  connects,    \* how many times connect_websocket returned
  sockOpen,    \* the task holds a websocket that was not closed or dropped
  sockOuter,   \* PeripheryConnection.cancel was cancelled
  sockChild,   \* the child token of handle_socket was cancelled
  swpc,        \* forward_writes: "idle", "select", "send" or "exited"
  srpc,        \* handle_reads: "idle", "select", "handling" or "exited"
  sockOut,     \* messages the buffered receiver holds for the writer
  sockIn,      \* what ws_read.recv() will return next, in order
  sockErr,     \* PeripheryConnection.error, "none" when cleared
  sockConn,    \* PeripheryConnection.connected
  readFailed   \* ws_read.recv() returned Err

socketVars == <<suppc, connects, sockOpen, sockOuter, sockChild, swpc, srpc,
                sockOut, sockIn, sockErr, sockConn, readFailed>>

VARIABLES
  \* ---- SpecReceiver: Periphery's handler and one Core's receiver ----
  holder,      \* the socket whose task holds the receiver's MutexGuard, or 0
  upc,         \* socket -> "idle", "login", "relock", "socket", "refused", "done"
  uresp,       \* socket -> what the peer got: "none", "error", "Failed"
  uclosed,     \* socket -> the handler closed the socket
  uoutbox,     \* messages in the Core's channel
  forwarded    \* socket -> how many messages its writer took from the receiver

receiverVars == <<holder, upc, uresp, uclosed, uoutbox, forwarded>>

VARIABLES
  \* ---- SpecBail: callers of bail_if_not_connected ----
  bconn,       \* PeripheryConnection.connected
  berr,        \* PeripheryConnection.error, "none" when cleared
  bpc,         \* caller -> "poll", "sleep", "error" or "done"
  breads,      \* caller -> what its reads of connected saw, in order
  bres         \* caller -> "none", "Ok" or the error returned

bailVars == <<bconn, berr, bpc, breads, bres>>

VARIABLES
  \* ---- SpecViewer: a terminal, its history and one viewer channel ----
  hist,        \* History.buf: the bytes held, oldest first
  hhead,       \* History.buf: physical index of the oldest byte
  ptyOut,      \* how many chunks the PTY reader has read
  ptypc,       \* PTY reader: "read", or "send" with the chunk pushed
  tcancel,     \* Terminal.cancel was cancelled
  vpc,         \* viewer task: "start", "wait", "history", "live", "done"
  vtrig,       \* the viewer's trigger: "absent", "armed" or "fired"
  triggerSeen, \* handle_message got an empty Terminal frame for the channel
  vparts,      \* the pair bytes_parts returned
  vpart,       \* which part is being sent
  vsubscribed, \* stdout.resubscribe() was called
  vsub,        \* chunks waiting in the viewer's broadcast receiver
  vframes,     \* Terminal frames sent on the channel, in order
  vchan,       \* terminal_channels holds an entry for the channel
  vcancel      \* the TerminalChannel's cancel token was cancelled

viewerVars == <<hist, hhead, ptyOut, ptypc, tcancel, vpc, vtrig,
                triggerSeen, vparts, vpart,
                vsubscribed, vsub, vframes, vchan, vcancel>>

VARIABLES
  \* ---- SpecTerminals: the terminal registry and create_terminal ----
  tmap,        \* terminals(): name -> terminal, 0 when the name is free
  tcmd,        \* terminal -> its command, "none" before it exists
  tcanc,       \* terminal -> its cancel token was cancelled
  tcalls,      \* how many create_terminal calls were made
  tlast        \* the last call: its arguments and what it returned

terminalsVars == <<tmap, tcmd, tcanc, tcalls, tlast>>

VARIABLES
  \* ---- SpecKeys: Periphery's key pair slot and RotatePrivateKey ----
  kstatic,     \* config.private_key is given inline, not as a file
  kslot,       \* periphery_keys(): the pair the slot points to
  kgen,        \* how many pairs were generated
  kfile,       \* the private and the public key file
  krot,        \* RotatePrivateKey: "idle", "private", "public" or "store"
  knew,        \* RotatePrivateKey: the pair it generated
  ksnap,       \* reader -> the pair its load() returned, NoPair before
  kseen,       \* reader -> the private and the public key it has used
  kresp,       \* the public key of the last RotatePrivateKeyResponse
  kreq,        \* a RotatePrivateKey request reached Periphery, not yet handled
  kanswer,     \* how the request was answered: "none", "ok" or "err"
  rotpc,       \* RotateServerKeys on Core: "idle", "wait", "update", "ok", "err"
  rotpin       \* the public key Core pins for the server

keysVars == <<kstatic, kslot, kgen, kfile, krot, knew, ksnap, kseen,
             kresp, kreq, kanswer, rotpc, rotpin>>

VARIABLES
  \* ---- SpecOutbound: bin/periphery/src/connection/client.rs handler ----
  ppc,         \* position of handler: "connect", "flow", "login", "onboard",
               \* "socket", "sleep" or "returned"
  psock,       \* the websocket of the current turn of the loop is open
  pconnects,   \* calls of connect_websocket so far
  ponboards,   \* calls of handle_onboarding so far
  plogged,     \* the already_logged_* flags
  plast,       \* how the last step of the loop ended, "none" at the start
  prefused     \* Core answered an onboarding attempt with Failed

outboundVars == <<ppc, psock, pconnects, ponboards, plogged, plast,
                  prefused>>

vars == <<connVars, bufVars, reqVars, rpcVars, pollVars, loginVars,
          loginTypeVars, attemptVars, prologueVars, frameVars,
          onboardVars, socketVars, receiverVars, bailVars,
          viewerVars, terminalsVars, keysVars, outboundVars>>

\* What the steps of one subsystem leave unchanged.
notConnVars == <<bufVars, reqVars, rpcVars, pollVars, loginVars,
                 loginTypeVars, attemptVars, prologueVars,
                 frameVars, onboardVars, socketVars,
                 receiverVars, bailVars, viewerVars,
                 terminalsVars, keysVars, outboundVars>>
notBufVars == <<connVars, reqVars, rpcVars, pollVars, loginVars,
                loginTypeVars, attemptVars, prologueVars,
                frameVars, onboardVars, socketVars,
                receiverVars, bailVars, viewerVars,
                terminalsVars, keysVars, outboundVars>>
notReqVars == <<connVars, bufVars, rpcVars, pollVars, loginVars,
                loginTypeVars, attemptVars, prologueVars,
                frameVars, onboardVars, socketVars,
                receiverVars, bailVars, viewerVars,
                terminalsVars, keysVars, outboundVars>>
notRpcVars == <<connVars, bufVars, reqVars, pollVars, loginVars,
                loginTypeVars, attemptVars, prologueVars,
                frameVars, onboardVars, socketVars,
                receiverVars, bailVars, viewerVars,
                terminalsVars, keysVars, outboundVars>>
notPollVars == <<connVars, bufVars, reqVars, rpcVars, loginVars,
                 loginTypeVars, attemptVars, prologueVars,
                 frameVars, onboardVars, socketVars,
                 receiverVars, bailVars, viewerVars,
                 terminalsVars, keysVars, outboundVars>>
notLoginVars == <<connVars, bufVars, reqVars, rpcVars, pollVars,
                  loginTypeVars, attemptVars,
                  prologueVars, frameVars, onboardVars,
                  socketVars, receiverVars, bailVars,
                  viewerVars, terminalsVars, keysVars,
                  outboundVars>>
notLoginTypeVars == <<connVars, bufVars, reqVars, rpcVars, pollVars,
                      loginVars, attemptVars,
                      prologueVars, frameVars,
                      onboardVars, socketVars,
                      receiverVars, bailVars,
                      viewerVars, terminalsVars,
                      keysVars, outboundVars>>
notAttemptVars == <<connVars, bufVars, reqVars, rpcVars, pollVars,
                    loginVars, loginTypeVars,
                    prologueVars, frameVars,
                    onboardVars, socketVars,
                    receiverVars, bailVars, viewerVars,
                    terminalsVars, keysVars,
                    outboundVars>>
notPrologueVars == <<connVars, bufVars, reqVars, rpcVars, pollVars,
                     loginVars, loginTypeVars,
                     attemptVars, frameVars,
                     onboardVars, socketVars,
                     receiverVars, bailVars,
                     viewerVars, terminalsVars,
                     keysVars, outboundVars>>
notFrameVars == <<connVars, bufVars, reqVars, rpcVars, pollVars, loginVars,
                  loginTypeVars, attemptVars,
                  prologueVars, onboardVars, socketVars,
                  receiverVars, bailVars, viewerVars,
                  terminalsVars, keysVars, outboundVars>>
notOnboardVars == <<connVars, bufVars, reqVars, rpcVars, pollVars,
                    loginVars, loginTypeVars,
                    attemptVars, prologueVars,
                    frameVars, socketVars, receiverVars,
                    bailVars, viewerVars, terminalsVars,
                    keysVars, outboundVars>>
notSocketVars == <<connVars, bufVars, reqVars, rpcVars, pollVars, loginVars,
                   loginTypeVars, attemptVars,
                   prologueVars, frameVars, onboardVars,
                   receiverVars, bailVars, viewerVars,
                   terminalsVars, keysVars, outboundVars>>
notReceiverVars == <<connVars, bufVars, reqVars, rpcVars, pollVars,
                     loginVars, loginTypeVars,
                     attemptVars, prologueVars,
                     frameVars, onboardVars,
                     socketVars, bailVars, viewerVars,
                     terminalsVars, keysVars,
                     outboundVars>>
notBailVars == <<connVars, bufVars, reqVars, rpcVars, pollVars, loginVars,
                 loginTypeVars, attemptVars, prologueVars,
                 frameVars, onboardVars, socketVars,
                 receiverVars, viewerVars, terminalsVars,
                 keysVars, outboundVars>>
notViewerVars == <<connVars, bufVars, reqVars, rpcVars, pollVars, loginVars,
                   loginTypeVars, attemptVars,
                   prologueVars, frameVars, onboardVars,
                   socketVars, receiverVars, bailVars,
                   terminalsVars, keysVars, outboundVars>>
notTerminalsVars == <<connVars, bufVars, reqVars, rpcVars, pollVars,
                      loginVars, loginTypeVars,
                      attemptVars, prologueVars,
                      frameVars, onboardVars,
                      socketVars, receiverVars,
                      bailVars, viewerVars, keysVars,
                      outboundVars>>
notKeysVars == <<connVars, bufVars, reqVars, rpcVars, pollVars, loginVars,
                 loginTypeVars, attemptVars, prologueVars,
                 frameVars, onboardVars, socketVars,
                 receiverVars, bailVars, viewerVars,
                 terminalsVars, outboundVars>>
notOutboundVars == <<connVars, bufVars, reqVars, rpcVars, pollVars,
                     loginVars, loginTypeVars,
                     attemptVars, prologueVars,
                     frameVars, onboardVars,
                     socketVars, receiverVars,
                     bailVars, viewerVars,
                     terminalsVars, keysVars>>

-----------------------------------------------------------------------------
(***************************************************************************)
(* SpecConn.  A connection object is named by the task that constructed it *)
(* (each task constructs at most one); a channel map and an error cell are *)
(* named by the connection whose constructor allocated them, so two        *)
(* connections share a map exactly when chanOf agrees.  The initial state   *)
(* is either the empty registry or the registry after one inbound          *)
(* connection has come and gone: it is still registered, disconnected,     *)
(* with its last error cached and the channels of unanswered requests.     *)
(***************************************************************************)
InitConn ==
  /\ registry \in {NoConn, Old}
  /\ created = IF registry = Old THEN {Old} ELSE {}
  /\ address = [c \in Conns |-> FALSE]
  /\ cancelled = [c \in Conns |-> FALSE]
  /\ connected = [c \in Conns |-> FALSE]
  /\ chanOf = [c \in Conns |-> c]
  /\ errOf = [c \in Conns |-> c]
  /\ \E left \in (IF registry = Old THEN SUBSET Cids ELSE {{}}) :
        chanMap = [m \in Conns |-> IF m = Old /\ registry = Old
                                     THEN left ELSE {}]
  /\ errCell = [m \in Conns |-> IF m = Old /\ registry = Old
                                   THEN "err" ELSE "none"]
  /\ hpc = [h \in Handlers |-> "idle"]
  /\ hseen = [h \in Handlers |-> NoConn]
  /\ removed = {}
  /\ hresp = [h \in Handlers |-> "none"]

\* PeripheryConnection::set_error on connection c.
SetError(c, e) == errCell' = [errCell EXCEPT ![errOf[c]] = e]

\* The duplicate check with its condition inverted.
DuplicateConnectedInverted == registry # NoConn /\ ~connected[registry]

\* The duplicate check of existing_server_handler: reject iff a connection is
\* registered and it is connected.
DuplicateConnected == registry # NoConn /\ connected[registry]

\* existing_server_handler up to the duplicate check: connections.get(id)
\* followed by existing_connection.connected().
AcceptCheck(h) ==
  /\ hpc[h] = "idle"
  /\ hseen' = [hseen EXCEPT ![h] = registry]
  /\ IF DuplicateConnected
       THEN /\ hpc' = [hpc EXCEPT ![h] = "rejected"]
            /\ hresp' = [hresp EXCEPT ![h] = "401"]
       ELSE /\ hpc' = [hpc EXCEPT ![h] = "insert"]
            /\ hresp' = hresp
  /\ UNCHANGED notConnVars
  /\ UNCHANGED <<registry, created, address, cancelled, connected, chanOf,
                 errOf, chanMap, errCell, removed>>

\* spawn_client_connection up to its call of insert: no duplicate check.
SpawnClient(h) ==
  /\ hpc[h] = "idle"
  /\ hpc' = [hpc EXCEPT ![h] = "insert"]
  /\ address' = [address EXCEPT ![h] = TRUE]
  /\ UNCHANGED notConnVars
  /\ UNCHANGED <<registry, created, cancelled, connected, chanOf, errOf,
                 chanMap, errCell, hseen, removed, hresp>>

\* The map and cell a connection built by insert() gets: those of the
\* connection it found (with_new_args), fresh ones otherwise (new).
CarriedChan(h, existing) == IF existing # NoConn THEN chanOf[existing] ELSE h
CarriedErr(h, existing) == IF existing # NoConn THEN errOf[existing] ELSE h

\* PeripheryConnections::insert, first await: self.0.remove(&server_id), then
\* with_new_args (cancels the connection found) or new.
InsertRemove(h) ==
  /\ hpc[h] = "insert"
  /\ registry' = NoConn
  /\ created' = created \cup {h}
  /\ cancelled' = IF registry # NoConn
                    THEN [cancelled EXCEPT ![registry] = TRUE]
                    ELSE cancelled
  /\ chanOf' = [chanOf EXCEPT ![h] = CarriedChan(h, registry)]
  /\ errOf' = [errOf EXCEPT ![h] = CarriedErr(h, registry)]
  /\ hpc' = [hpc EXCEPT ![h] = "put"]
  /\ UNCHANGED notConnVars
  /\ UNCHANGED <<address, connected, chanMap, errCell, hseen, removed, hresp>>

\* PeripheryConnections::insert, second await: self.0.insert(server_id, new).
InsertPut(h) ==
  /\ hpc[h] = "put"
  /\ registry' = h
  /\ hpc' = [hpc EXCEPT ![h] = IF address[h] THEN "connect" ELSE "login"]
  /\ hresp' = [hresp EXCEPT ![h] = IF address[h] THEN "none" ELSE "upgrade"]
  /\ UNCHANGED notConnVars
  /\ UNCHANGED <<created, address, cancelled, connected, chanOf, errOf,
                 chanMap, errCell, hseen, removed>>

\* The outbound supervisor loop at connect_websocket: break when cancelled,
\* store the error and retry when the connect fails.
ClientConnect(h) ==
  /\ hpc[h] = "connect"
  /\ \/ /\ cancelled[h]
        /\ hpc' = [hpc EXCEPT ![h] = "done"]
        /\ UNCHANGED errCell
     \/ /\ ~cancelled[h]
        /\ hpc' = [hpc EXCEPT ![h] = "login"]
        /\ UNCHANGED errCell
     \/ /\ ~cancelled[h]
        /\ SetError(h, "err")
        /\ UNCHANGED hpc
  /\ UNCHANGED notConnVars
  /\ UNCHANGED <<registry, created, address, cancelled, connected, chanOf,
                 errOf, chanMap, hseen, removed, hresp>>

\* The login of either direction fails: the error is stored; the inbound
\* task ends, the outbound loop retries unless it was cancelled.
LoginFail(h) ==
  /\ hpc[h] = "login"
  /\ IF address[h]
       THEN IF cancelled[h]
              THEN /\ hpc' = [hpc EXCEPT ![h] = "done"]
                   /\ UNCHANGED errCell
              ELSE /\ hpc' = [hpc EXCEPT ![h] = "connect"]
                   /\ SetError(h, "err")
       ELSE /\ hpc' = [hpc EXCEPT ![h] = "done"]
            /\ SetError(h, "err")
  /\ UNCHANGED notConnVars
  /\ UNCHANGED <<registry, created, address, cancelled, connected, chanOf,
                 errOf, chanMap, hseen, removed, hresp>>

\* Login succeeded; handle_socket starts: set_connected(true), clear_error.
SocketStart(h) ==
  /\ hpc[h] = "login"
  /\ connected' = [connected EXCEPT ![h] = TRUE]
  /\ SetError(h, "none")
  /\ hpc' = [hpc EXCEPT ![h] = "socket"]
  /\ UNCHANGED notConnVars
  /\ UNCHANGED <<registry, created, address, cancelled, chanOf, errOf,
                 chanMap, hseen, removed, hresp>>

\* Both halves of handle_socket have exited (the socket closed, a send
\* failed, or the token was cancelled): set_connected(false).  A close or a
\* failure caches its error first.
SocketExit(h) ==
  /\ hpc[h] = "socket"
  /\ connected' = [connected EXCEPT ![h] = FALSE]
  /\ \/ SetError(h, "err")
     \/ /\ cancelled[h]
        /\ UNCHANGED errCell
  /\ hpc' = [hpc EXCEPT ![h] = IF address[h] THEN "connect" ELSE "done"]
  /\ UNCHANGED notConnVars
  /\ UNCHANGED <<registry, created, address, cancelled, chanOf, errOf,
                 chanMap, hseen, removed, hresp>>

\* PeripheryConnections::remove: remove the entry and cancel it.
RemoveConnection ==
  /\ registry # NoConn
  /\ cancelled' = [cancelled EXCEPT ![registry] = TRUE]
  /\ registry' = NoConn
  /\ removed' = removed \cup {registry}
  /\ UNCHANGED notConnVars
  /\ UNCHANGED <<created, address, connected, chanOf, errOf, chanMap,
                 errCell, hpc, hseen, hresp>>

\* PeripheryClient::request registers a response channel in the map of the
\* registered, connected connection.
ChannelInsert(cid) ==
  /\ registry # NoConn
  /\ connected[registry]
  /\ cid \notin chanMap[chanOf[registry]]
  /\ chanMap' = [chanMap EXCEPT ![chanOf[registry]] = @ \cup {cid}]
  /\ UNCHANGED notConnVars
  /\ UNCHANGED <<registry, created, address, cancelled, connected, chanOf,
                 errOf, errCell, hpc, hseen, removed, hresp>>

NextConn ==
  \/ \E h \in Handlers : AcceptCheck(h)
  \/ \E h \in Handlers : SpawnClient(h)
  \/ \E h \in Handlers : InsertRemove(h)
  \/ \E h \in Handlers : InsertPut(h)
  \/ \E h \in Handlers : ClientConnect(h)
  \/ \E h \in Handlers : LoginFail(h)
  \/ \E h \in Handlers : SocketStart(h)
  \/ \E h \in Handlers : SocketExit(h)
  \/ RemoveConnection
  \/ \E cid \in Cids : ChannelInsert(cid)

-----------------------------------------------------------------------------
(***************************************************************************)
(* SpecBuffer.  Periphery keeps one channel per Core; its BufferedReceiver *)
(* outlives the sockets.  handle_socket runs the writer half              *)
(* (forward_writes) and the reader half under select!: when the reader    *)
(* ends, the writer is dropped at whichever await it is in.               *)
(***************************************************************************)
NoMsg == 0
Msgs == 1..MaxMsgs

InitBuffer ==
  /\ bqueue = <<>>
  /\ buffer = NoMsg
  /\ produced = 0
  /\ sockets = 0
  /\ sockUp = FALSE
  /\ written = <<>>
  /\ wpc = "recv"
  /\ wmsg = NoMsg
  /\ owed = NoMsg

\* Sender::send: a response, ping or terminal frame enters the channel.
Produce ==
  /\ produced < MaxMsgs
  /\ produced' = produced + 1
  /\ bqueue' = Append(bqueue, produced + 1)
  /\ UNCHANGED notBufVars
  /\ UNCHANGED <<buffer, sockets, sockUp, written, wpc, wmsg, owed>>

\* A socket is established and logged in; handle_socket starts on it.
SocketEstablished ==
  /\ ~sockUp
  /\ sockets < MaxSockets
  /\ sockets' = sockets + 1
  /\ sockUp' = TRUE
  /\ written' = <<>>
  /\ wpc' = "recv"
  /\ wmsg' = NoMsg
  /\ UNCHANGED notBufVars
  /\ UNCHANGED <<bqueue, buffer, produced, owed>>

\* BufferedReceiver::recv with the buffer dropped as soon as it is read.
BufferAfterRecvCleared(msg) == NoMsg

\* BufferedReceiver::recv: what the buffer holds once recv returned msg.
BufferAfterRecv(msg) == msg

\* forward_writes at receiver.recv(): the buffered message if there is one,
\* else the next message of the channel, which is stored in the buffer.
WriterRecv ==
  /\ sockUp /\ wpc = "recv"
  /\ IF buffer # NoMsg
       THEN /\ wmsg' = buffer
            /\ buffer' = BufferAfterRecv(buffer)
            /\ UNCHANGED bqueue
       ELSE /\ bqueue # <<>>
            /\ wmsg' = Head(bqueue)
            /\ buffer' = BufferAfterRecv(Head(bqueue))
            /\ bqueue' = Tail(bqueue)
  /\ wpc' = "send"
  /\ UNCHANGED notBufVars
  /\ UNCHANGED <<produced, sockets, sockUp, written, owed>>

\* ws_write.send(msg) returned Ok: clear_buffer.
WriterSendOk ==
  /\ sockUp /\ wpc = "send"
  /\ written' = Append(written, wmsg)
  /\ buffer' = NoMsg
  /\ wpc' = "recv"
  /\ wmsg' = NoMsg
  /\ UNCHANGED notBufVars
  /\ UNCHANGED <<bqueue, produced, sockets, sockUp, owed>>

\* ws_write.send(msg) returned Err: close, break; handle_socket returns.
WriterSendFail ==
  /\ sockUp /\ wpc = "send"
  /\ owed' = wmsg
  /\ sockUp' = FALSE
  /\ wpc' = "recv"
  /\ wmsg' = NoMsg
  /\ UNCHANGED notBufVars
  /\ UNCHANGED <<bqueue, buffer, produced, sockets, written>>

\* The reader half ends (close frame, closed socket, read error): select!
\* drops the writer where it stands.  A frame whose send was in progress
\* may or may not have reached the wire.
ReaderEnds ==
  /\ sockUp
  /\ owed' = IF wpc = "send" THEN wmsg ELSE NoMsg
  /\ \/ UNCHANGED written
     \/ /\ wpc = "send"
        /\ written' = Append(written, wmsg)
  /\ sockUp' = FALSE
  /\ wpc' = "recv"
  /\ wmsg' = NoMsg
  /\ UNCHANGED notBufVars
  /\ UNCHANGED <<bqueue, buffer, produced, sockets>>

NextBuffer ==
  \/ Produce
  \/ SocketEstablished
  \/ WriterRecv
  \/ WriterSendOk
  \/ WriterSendFail
  \/ ReaderEnds

-----------------------------------------------------------------------------
(***************************************************************************)
(* SpecRequest.  handle_incoming_bytes hands every Request frame to        *)
(* handle_request, which spawns a task: it reads the payload, then runs    *)
(* resolve_response and ping_in_progress under select!.                    *)
(***************************************************************************)
Requests == 1..MaxRequests
Payloads == {"empty", "garbage", "valid"}
Terminals == {"Successful", "Failed"}

InitRequest ==
  /\ rstate = [r \in Requests |-> "none"]
  /\ rpayload = [r \in Requests |-> "valid"]
  /\ emitted = [r \in Requests |-> <<>>]

\* A Request frame arrives: handle_request spawns the task.
ReceiveRequest(r, payload) ==
  /\ rstate[r] = "none"
  /\ rstate' = [rstate EXCEPT ![r] = "spawned"]
  /\ rpayload' = [rpayload EXCEPT ![r] = payload]
  /\ UNCHANGED notReqVars
  /\ UNCHANGED <<emitted>>

\* The task reads the payload: an empty payload, or one that does not
\* deserialize into a PeripheryRequest, ends the task without any frame.
ParseRequest(r) ==
  /\ rstate[r] = "spawned"
  /\ rstate' = [rstate EXCEPT ![r] =
                  IF rpayload[r] = "valid" THEN "running" ELSE "dropped"]
  /\ UNCHANGED notReqVars
  /\ UNCHANGED <<rpayload, emitted>>

\* ping_in_progress is polled only while select! has not completed.
PingAlive(r) == rstate[r] = "running"

\* ping_in_progress: 5 s have passed, an InProgress frame is sent.
PingInProgress(r) ==
  /\ PingAlive(r)
  /\ Len(SelectSeq(emitted[r], LAMBDA f : f = "InProgress")) < MaxPings
  /\ emitted' = [emitted EXCEPT ![r] = Append(@, "InProgress")]
  /\ UNCHANGED notReqVars
  /\ UNCHANGED <<rstate, rpayload>>

\* resolve_response: the handler returned Ok or Err, the terminal frame is
\* sent; select! completes and drops ping_in_progress.
ResolveResponse(r, state) ==
  /\ rstate[r] = "running"
  /\ emitted' = [emitted EXCEPT ![r] = Append(@, state)]
  /\ rstate' = [rstate EXCEPT ![r] = "done"]
  /\ UNCHANGED notReqVars
  /\ UNCHANGED <<rpayload>>

NextRequest ==
  \/ \E r \in Requests, payload \in Payloads : ReceiveRequest(r, payload)
  \/ \E r \in Requests : ParseRequest(r)
  \/ \E r \in Requests : PingInProgress(r)
  \/ \E r \in Requests, state \in Terminals : ResolveResponse(r, state)

-----------------------------------------------------------------------------
(***************************************************************************)
(* SpecRpc.  Core's side of a request: request() registers a response      *)
(* channel, queues the Request frame and polls the channel.  The           *)
(* connection's reader forwards inbound frames to the channel registered   *)
(* under their id.  The channel map is shared by every connection of the   *)
(* peer, so it survives drops and reconnects.  Time is abstracted here: the *)
(* sleep of a poll may elapse whenever the channel is empty.  SpecPoll     *)
(* below measures it.                                                      *)
(***************************************************************************)
Rpcs == 1..MaxRpcs

InitRpc ==
  /\ linkUp = TRUE
  /\ drops = 0
  /\ channels = {}
  /\ outbound = <<>>
  /\ onWire = [q \in Rpcs |-> FALSE]
  /\ qpc = [q \in Rpcs |-> "idle"]
  /\ qresult = [q \in Rpcs |-> "none"]
  /\ inbox = [q \in Rpcs |-> <<>>]
  /\ hit = [q \in Rpcs |-> FALSE]
  /\ sendFailed = {}

\* request() returns res: its receiver is dropped with what is queued in it.
Return(q, res) ==
  /\ qpc' = [qpc EXCEPT ![q] = "returned"]
  /\ qresult' = [qresult EXCEPT ![q] = res]
  /\ inbox' = [inbox EXCEPT ![q] = <<>>]

\* request() up to the end of bail_if_not_connected.  Requests are numbered
\* in the order they are issued.
RequestBail(q) ==
  /\ qpc[q] = "idle"
  /\ \A p \in Rpcs : p < q => qpc[p] # "idle"
  /\ IF linkUp
       THEN /\ qpc' = [qpc EXCEPT ![q] = "insert"]
            /\ UNCHANGED <<qresult, inbox>>
       ELSE Return(q, "NotConnected")
  /\ UNCHANGED notRpcVars
  /\ UNCHANGED <<linkUp, drops, channels, outbound, onWire, hit,
                 sendFailed>>

\* request(): channels.insert(id, sender), serialize, connection.send.  A
\* request that does not serialize returns through `?` with its id inserted.
RequestSend(q, serializes) ==
  /\ qpc[q] = "insert"
  /\ channels' = channels \cup {q}
  /\ IF serializes
       THEN /\ outbound' = Append(outbound, q)
            /\ qpc' = [qpc EXCEPT ![q] = "wait"]
            /\ UNCHANGED <<qresult, inbox>>
       ELSE /\ Return(q, "SerializeError")
            /\ UNCHANGED outbound
  /\ UNCHANGED notRpcVars
  /\ UNCHANGED <<linkUp, drops, onWire, hit,
                 sendFailed>>

\* The response sender of q was dropped: nothing is queued and the map no
\* longer holds it.
SenderDropped(q) == inbox[q] = <<>> /\ q \notin channels

\* request(): response_receiever.recv() returned.  InProgress (and any frame
\* without data) goes round the loop; Successful and Failed remove the
\* channel and return; None returns the sender-dropped error.
RequestPoll(q) ==
  /\ qpc[q] = "wait"
  /\ inbox[q] # <<>> \/ SenderDropped(q)
  /\ IF SenderDropped(q)
       THEN /\ Return(q, "ConnectionDropped")
            /\ UNCHANGED channels
       ELSE IF Head(inbox[q]) = "InProgress"
       THEN /\ inbox' = [inbox EXCEPT ![q] = Tail(@)]
            /\ UNCHANGED <<qpc, qresult, channels>>
       ELSE /\ channels' = channels \ {q}
            /\ Return(q, IF Head(inbox[q]) = "Successful"
                           THEN "Ok" ELSE "Failed")
  /\ UNCHANGED notRpcVars
  /\ UNCHANGED <<linkUp, drops, outbound, onWire, hit,
                 sendFailed>>

\* request(): the sleep of the current poll elapsed with the channel empty.
RequestTimeout(q) ==
  /\ qpc[q] = "wait"
  /\ inbox[q] = <<>>
  /\ Return(q, "ResponseTimeout")
  /\ UNCHANGED notRpcVars
  /\ UNCHANGED <<linkUp, drops, channels, outbound, onWire, hit,
                 sendFailed>>

\* forward_writes of Core's handle_socket: the next queued frame is written.
ForwardWrite ==
  /\ linkUp
  /\ outbound # <<>>
  /\ onWire' = [onWire EXCEPT ![Head(outbound)] = TRUE]
  /\ outbound' = Tail(outbound)
  /\ UNCHANGED notRpcVars
  /\ UNCHANGED <<linkUp, drops, channels, qpc, qresult, inbox, hit,
                 sendFailed>>

\* The peer's request task pings while it resolves, and responds once; a
\* ping is polled before the next one arrives.
PeerMaySend(q, frame) ==
  IF frame = "InProgress"
    THEN inbox[q] = <<>>
    ELSE \A i \in 1..Len(inbox[q]) : inbox[q][i] = "InProgress"

\* handle_incoming_bytes: a Response frame of the peer for channel q.  With
\* no entry for q in the map it is logged and lost.  Otherwise channel.send
\* queues it in q's channel, or fails because the receiver is gone: the
\* failure is logged and the entry stays in the map.
PeerFrame(q, frame) ==
  /\ linkUp
  /\ onWire[q]
  /\ PeerMaySend(q, frame)
  /\ IF q \notin channels
       THEN UNCHANGED <<inbox, sendFailed>>
       ELSE IF qpc[q] = "wait"
       THEN /\ inbox' = [inbox EXCEPT ![q] = Append(@, frame)]
            /\ UNCHANGED sendFailed
       ELSE /\ sendFailed' = sendFailed \cup {q}
            /\ UNCHANGED inbox
  /\ UNCHANGED notRpcVars
  /\ UNCHANGED <<linkUp, drops, channels, outbound, onWire, qpc, qresult,
                 hit>>

\* The channel map cleared when the socket goes down.
ChannelsDrained == {}

\* What handle_socket's exit leaves of the channel map: everything.
ChannelsAfterDrop == channels

\* Both halves of handle_socket exit: set_connected(false).
ConnectionDrop ==
  /\ linkUp
  /\ drops < MaxDrops
  /\ linkUp' = FALSE
  /\ drops' = drops + 1
  /\ channels' = ChannelsAfterDrop
  /\ hit' = [q \in Rpcs |-> hit[q] \/ (qpc[q] = "wait" /\ onWire[q])]
  /\ UNCHANGED notRpcVars
  /\ UNCHANGED <<outbound, onWire, qpc, qresult, inbox, sendFailed>>

\* A new socket is established and logged in: set_connected(true).
Reconnect ==
  /\ ~linkUp
  /\ linkUp' = TRUE
  /\ UNCHANGED notRpcVars
  /\ UNCHANGED <<drops, channels, outbound, onWire, qpc, qresult, inbox, hit,
                 sendFailed>>

NextRpc ==
  \/ \E q \in Rpcs : RequestBail(q)
  \/ \E q \in Rpcs, serializes \in BOOLEAN : RequestSend(q, serializes)
  \/ \E q \in Rpcs : RequestPoll(q)
  \/ \E q \in Rpcs : RequestTimeout(q)
  \/ ForwardWrite
  \/ \E q \in Rpcs, frame \in {"InProgress"} \cup Terminals : PeerFrame(q, frame)
  \/ ConnectionDrop
  \/ Reconnect

-----------------------------------------------------------------------------
(***************************************************************************)
(* SpecPoll.  The poll loop of one request() against the clock, in         *)
(* seconds: each time round, the loop selects between the response channel *)
(* and a fresh 10 s sleep.  Frames reach the channel at any time.  A task  *)
(* that can run does so before the clock advances.                         *)
(***************************************************************************)
\* request(): tokio::time::sleep(Duration::from_secs(10)) in the poll loop.
ResponseTimeoutSecs == 10
\* ping_in_progress: tokio::time::sleep(Duration::from_secs(5)).
PingSecs == 5

InitPoll ==
  /\ pollResult = "none"
  /\ pollInbox = <<>>
  /\ pollWaited = 0
  /\ pollClock = 0
  /\ arrivals = <<>>

Polling == pollResult = "none"

\* handle_incoming_bytes: a Response frame for the request is queued in its
\* channel.  The peer sends InProgress frames, then one terminal frame.
PollFrameArrives(frame) ==
  /\ Polling
  /\ \A i \in 1..Len(pollInbox) : pollInbox[i] = "InProgress"
  /\ frame = "InProgress" => Len(arrivals) < MaxPings
  /\ pollInbox' = Append(pollInbox, frame)
  /\ arrivals' = Append(arrivals, pollClock)
  /\ UNCHANGED notPollVars
  /\ UNCHANGED <<pollResult, pollWaited, pollClock>>

\* The poll loop with one sleep for the whole request.
TimerKeepsRunning(w) == w

\* The poll loop creates a fresh sleep each time round: the timer restarts.
TimerAfterFrame(w) == 0

\* request(): response_receiever.recv() won the select.
PollRecv ==
  /\ Polling
  /\ pollInbox # <<>>
  /\ pollInbox' = Tail(pollInbox)
  /\ pollWaited' = TimerAfterFrame(pollWaited)
  /\ pollResult' = CASE Head(pollInbox) = "InProgress" -> "none"
                     [] Head(pollInbox) = "Successful" -> "Ok"
                     [] OTHER -> "Failed"
  /\ UNCHANGED notPollVars
  /\ UNCHANGED <<pollClock, arrivals>>

\* request(): the sleep won the select.
PollTimeout ==
  /\ Polling
  /\ pollWaited >= ResponseTimeoutSecs
  /\ pollResult' = "ResponseTimeout"
  /\ UNCHANGED notPollVars
  /\ UNCHANGED <<pollInbox, pollWaited, pollClock, arrivals>>

\* One second passes: the loop has nothing to poll and its sleep still runs.
PollTick ==
  /\ Polling
  /\ pollInbox = <<>>
  /\ pollWaited < ResponseTimeoutSecs
  /\ pollClock' = pollClock + 1
  /\ pollWaited' = pollWaited + 1
  /\ UNCHANGED notPollVars
  /\ UNCHANGED <<pollResult, pollInbox, arrivals>>

NextPoll ==
  \/ \E frame \in {"InProgress"} \cup Terminals : PollFrameArrives(frame)
  \/ PollRecv
  \/ PollTimeout
  \/ PollTick

-----------------------------------------------------------------------------
(***************************************************************************)
(* SpecLogin.  The two login flows on one socket.  The responder sends a   *)
(* nonce, reads m1, sends m2, reads m3, validates the initiator's key and  *)
(* answers Success; the initiator reads the nonce, sends m1, reads m2,     *)
(* validates the responder's key, sends m3 and reads the answer.  A send   *)
(* may fail, a receive may time out, a handshake message may be unreadable.*)
(* A flow that fails sends a Failed frame, closes the socket and returns   *)
(* the error.                                                              *)
(***************************************************************************)
ValidatorAnswers == {"accepted", "rejected", "invalidKey"}

InitLogin ==
  /\ spc = "sendNonce"
  /\ sres = "none"
  /\ ssent = <<>>
  /\ sread = {}
  /\ svalid = "none"
  /\ sclosed = FALSE
  /\ cpc = "recvNonce"
  /\ cres = "none"
  /\ csent = <<>>
  /\ cread = {}
  /\ cvalid = "none"
  /\ cclosed = FALSE
  /\ toServer = <<>>
  /\ toClient = <<>>

\* socket.send(frame) of the responder: Ok moves on, Err fails the flow.
ServerSend(at, frame, delivered, next) ==
  /\ spc = at
  /\ ssent' = Append(ssent, frame)
  /\ toClient' = IF delivered THEN Append(toClient, frame) ELSE toClient
  /\ spc' = IF delivered THEN next ELSE "fail"
  /\ UNCHANGED notLoginVars
  /\ UNCHANGED <<sres, sread, svalid, sclosed, cpc, cres, csent, cread,
                 cvalid, cclosed, toServer>>

\* recv_bytes_with_timeout and read_message of the responder: a timeout, a
\* frame whose state byte is not Successful, or an unreadable message fails
\* the flow.
ServerRecv(at, message, readable, next) ==
  /\ spc = at
  /\ IF toServer = <<>>
       THEN /\ spc' = "fail"
            /\ UNCHANGED <<sread, toServer>>
       ELSE /\ toServer' = Tail(toServer)
            /\ IF Head(toServer) = message /\ readable
                 THEN spc' = next /\ sread' = sread \cup {message}
                 ELSE spc' = "fail" /\ UNCHANGED sread
  /\ UNCHANGED notLoginVars
  /\ UNCHANGED <<sres, ssent, svalid, sclosed, cpc, cres, csent, cread,
                 cvalid, cclosed, toClient>>

ServerSendNonce(delivered) ==
  ServerSend("sendNonce", "nonce", delivered, "recvM1")

ServerRecvM1(readable) == ServerRecv("recvM1", "m1", readable, "sendM2")

ServerSendM2(delivered) == ServerSend("sendM2", "m2", delivered, "recvM3")

ServerRecvM3(readable) == ServerRecv("recvM3", "m3", readable, "validate")

\* The responder's inner block succeeds whatever the validator answers.
ServerAcceptsAny(answer) == TRUE

\* The responder's inner block ends with the validator's result.
ServerAccepts(answer) == answer = "accepted"

\* The responder extracts the initiator's public key and validates it.
ServerValidate(answer) ==
  /\ spc = "validate"
  /\ svalid' = answer
  /\ spc' = IF ServerAccepts(answer) THEN "sendSuccess" ELSE "fail"
  /\ UNCHANGED notLoginVars
  /\ UNCHANGED <<sres, ssent, sread, sclosed, cpc, cres, csent, cread,
                 cvalid, cclosed, toServer, toClient>>

\* match res, Ok: send the Success frame; a failed send returns its error.
ServerSendSuccess(delivered) ==
  /\ spc = "sendSuccess"
  /\ ssent' = Append(ssent, "Success")
  /\ toClient' = IF delivered THEN Append(toClient, "Success") ELSE toClient
  /\ sres' = IF delivered THEN "Ok" ELSE "Err"
  /\ spc' = "done"
  /\ UNCHANGED notLoginVars
  /\ UNCHANGED <<sread, svalid, sclosed, cpc, cres, csent, cread, cvalid,
                 cclosed, toServer>>

\* match res, Err: send the Failed frame carrying the error, close the
\* socket, return the error.
ServerSendFailed(delivered) ==
  /\ spc = "fail"
  /\ ssent' = Append(ssent, "Failed")
  /\ toClient' = IF delivered THEN Append(toClient, "Failed") ELSE toClient
  /\ sclosed' = TRUE
  /\ sres' = "Err"
  /\ spc' = "done"
  /\ UNCHANGED notLoginVars
  /\ UNCHANGED <<sread, svalid, cpc, cres, csent, cread, cvalid, cclosed,
                 toServer>>

\* socket.send(frame) of the initiator.
ClientSend(at, frame, delivered, next) ==
  /\ cpc = at
  /\ csent' = Append(csent, frame)
  /\ toServer' = IF delivered THEN Append(toServer, frame) ELSE toServer
  /\ cpc' = IF delivered THEN next ELSE "fail"
  /\ UNCHANGED notLoginVars
  /\ UNCHANGED <<spc, sres, ssent, sread, svalid, sclosed, cres, cread,
                 cvalid, cclosed, toClient>>

\* The initiator receives the nonce: whatever bytes arrive are the nonce.
ClientRecvNonce ==
  /\ cpc = "recvNonce"
  /\ IF toClient = <<>>
       THEN cpc' = "fail" /\ UNCHANGED toClient
       ELSE cpc' = "sendM1" /\ toClient' = Tail(toClient)
  /\ UNCHANGED notLoginVars
  /\ UNCHANGED <<spc, sres, ssent, sread, svalid, sclosed, cres, csent,
                 cread, cvalid, cclosed, toServer>>

ClientSendM1(delivered) == ClientSend("sendM1", "m1", delivered, "recvM2")

\* The initiator goes on to m3 without asking the validator.
AfterM2Unvalidated == "sendM3"

\* What the initiator does once it has read m2: validate the responder's key.
AfterM2 == "validate"

\* recv_bytes_with_timeout and read_message of m2.
ClientRecvM2(readable) ==
  /\ cpc = "recvM2"
  /\ IF toClient = <<>>
       THEN /\ cpc' = "fail"
            /\ UNCHANGED <<cread, toClient>>
       ELSE /\ toClient' = Tail(toClient)
            /\ IF Head(toClient) = "m2" /\ readable
                 THEN cpc' = AfterM2 /\ cread' = cread \cup {"m2"}
                 ELSE cpc' = "fail" /\ UNCHANGED cread
  /\ UNCHANGED notLoginVars
  /\ UNCHANGED <<spc, sres, ssent, sread, svalid, sclosed, cres, csent,
                 cvalid, cclosed, toServer>>

\* The initiator extracts the responder's public key and validates it.
ClientValidate(answer) ==
  /\ cpc = "validate"
  /\ cvalid' = answer
  /\ cpc' = IF answer = "accepted" THEN "sendM3" ELSE "fail"
  /\ UNCHANGED notLoginVars
  /\ UNCHANGED <<spc, sres, ssent, sread, svalid, sclosed, cres, csent,
                 cread, cclosed, toServer, toClient>>

ClientSendM3(delivered) == ClientSend("sendM3", "m3", delivered, "recvState")

\* The initiator receives the login state message.
ClientRecvState ==
  /\ cpc = "recvState"
  /\ IF toClient # <<>> /\ Head(toClient) = "Success"
       THEN cpc' = "done" /\ cres' = "Ok"
       ELSE cpc' = "fail" /\ UNCHANGED cres
  /\ toClient' = IF toClient = <<>> THEN toClient ELSE Tail(toClient)
  /\ UNCHANGED notLoginVars
  /\ UNCHANGED <<spc, sres, ssent, sread, svalid, sclosed, csent, cread,
                 cvalid, cclosed, toServer>>

\* match res, Err: send the Failed frame, close the socket, return the error.
ClientSendFailed(delivered) ==
  /\ cpc = "fail"
  /\ csent' = Append(csent, "Failed")
  /\ toServer' = IF delivered THEN Append(toServer, "Failed") ELSE toServer
  /\ cclosed' = TRUE
  /\ cres' = "Err"
  /\ cpc' = "done"
  /\ UNCHANGED notLoginVars
  /\ UNCHANGED <<spc, sres, ssent, sread, svalid, sclosed, cread, cvalid,
                 toClient>>

NextLogin ==
  \/ \E delivered \in BOOLEAN : ServerSendNonce(delivered)
  \/ \E readable \in BOOLEAN : ServerRecvM1(readable)
  \/ \E delivered \in BOOLEAN : ServerSendM2(delivered)
  \/ \E readable \in BOOLEAN : ServerRecvM3(readable)
  \/ \E answer \in ValidatorAnswers : ServerValidate(answer)
  \/ \E delivered \in BOOLEAN : ServerSendSuccess(delivered)
  \/ \E delivered \in BOOLEAN : ServerSendFailed(delivered)
  \/ ClientRecvNonce
  \/ \E delivered \in BOOLEAN : ClientSendM1(delivered)
  \/ \E readable \in BOOLEAN : ClientRecvM2(readable)
  \/ \E answer \in ValidatorAnswers : ClientValidate(answer)
  \/ \E delivered \in BOOLEAN : ClientSendM3(delivered)
  \/ ClientRecvState
  \/ \E delivered \in BOOLEAN : ClientSendFailed(delivered)

-----------------------------------------------------------------------------
(***************************************************************************)
(* SpecLoginType.  On an outbound connection Periphery first says which    *)
(* login it wants: [0] for the Noise handshake, [1] for the legacy passkey *)
(* exchange.  Core's client_login receives that byte and runs              *)
(* ClientLoginFlow or handle_passkey_login; Periphery's handle_login sends *)
(* it and runs ServerLoginFlow or its own handle_passkey_login.  Each side *)
(* is modelled against a peer that may send any frame, close the socket,   *)
(* or stay silent.  A receive completes when a frame is there, when the    *)
(* socket is closed, or when its timeout, if it has one, elapses.          *)
(***************************************************************************)
CoreFrames == {"noise", "passkey", "other", "Successful", "Failed"}
PeripheryFrames == {"goodPasskey", "badPasskey", "Failed"}

InitLoginType ==
  /\ tpc = "recvType"
  /\ tres = "none"
  /\ tin = <<>>
  /\ tshut = FALSE
  /\ kpc = "start"
  /\ kres = "none"
  /\ kin = <<>>
  /\ kshut = FALSE
  /\ peerSent = 0

\* MaybeWithTimeout awaited as it is polls the inner future: no timer runs.
PlainRecvTimed == FALSE

\* A receive returns: with a frame, with the closed socket's error, or with
\* the timeout's error.
RecvReturns(queue, shut, timed) == queue # <<>> \/ shut \/ timed

\* client_login: socket.recv_bytes().await for the login type indicator.
CoreRecvType ==
  /\ tpc = "recvType"
  /\ RecvReturns(tin, tshut, PlainRecvTimed)
  /\ IF tin = <<>>
       THEN tpc' = "done" /\ tres' = "Err" /\ UNCHANGED tin
       ELSE /\ tin' = Tail(tin)
            /\ tpc' = CASE Head(tin) = "noise" -> "noise"
                        [] Head(tin) = "passkey" -> "sendPasskey"
                        [] OTHER -> "done"
            /\ tres' = IF Head(tin) \in {"noise", "passkey"}
                         THEN "none" ELSE "Err"
  /\ UNCHANGED notLoginTypeVars
  /\ UNCHANGED <<tshut, kpc, kres, kin, kshut, peerSent>>

\* client_login, [0]: ClientLoginFlow::login, whose receives all carry
\* AUTH_TIMEOUT, returns.
CoreNoiseLogin(ok) ==
  /\ tpc = "noise"
  /\ tpc' = "done"
  /\ tres' = IF ok THEN "Ok" ELSE "Err"
  /\ UNCHANGED notLoginTypeVars
  /\ UNCHANGED <<tin, tshut, kpc, kres, kin, kshut, peerSent>>

\* Core's handle_passkey_login: the passkey is found and sent.
CoreSendPasskey(sent) ==
  /\ tpc = "sendPasskey"
  /\ tpc' = IF sent THEN "recvState" ELSE "fail"
  /\ UNCHANGED notLoginTypeVars
  /\ UNCHANGED <<tres, tin, tshut, kpc, kres, kin, kshut, peerSent>>

\* Core's handle_passkey_login: socket.recv_bytes().await for the
\* authentication state message.
CoreRecvState ==
  /\ tpc = "recvState"
  /\ RecvReturns(tin, tshut, PlainRecvTimed)
  /\ IF tin # <<>> /\ Head(tin) = "Successful"
       THEN tpc' = "done" /\ tres' = "Ok"
       ELSE tpc' = "fail" /\ UNCHANGED tres
  /\ tin' = IF tin = <<>> THEN tin ELSE Tail(tin)
  /\ UNCHANGED notLoginTypeVars
  /\ UNCHANGED <<tshut, kpc, kres, kin, kshut, peerSent>>

\* Core's handle_passkey_login, Err: send Failed, close, return the error.
CorePasskeyFailed ==
  /\ tpc = "fail"
  /\ tpc' = "done"
  /\ tres' = "Err"
  /\ UNCHANGED notLoginTypeVars
  /\ UNCHANGED <<tin, tshut, kpc, kres, kin, kshut, peerSent>>

\* Periphery's handle_login: the configuration picks the login type, and its
\* indicator is sent.
PeripherySendType(noise, sent) ==
  /\ kpc = "start"
  /\ kpc' = CASE noise /\ sent -> "noise"
              [] noise /\ ~sent -> "done"
              [] ~noise /\ sent -> "recvPasskey"
              [] OTHER -> "fail"
  /\ kres' = IF noise /\ ~sent THEN "Err" ELSE "none"
  /\ UNCHANGED notLoginTypeVars
  /\ UNCHANGED <<tpc, tres, tin, tshut, kin, kshut, peerSent>>

\* Periphery's handle_login, Noise: ServerLoginFlow::login returns.
PeripheryNoiseLogin(ok) ==
  /\ kpc = "noise"
  /\ kpc' = "done"
  /\ kres' = IF ok THEN "Ok" ELSE "Err"
  /\ UNCHANGED notLoginTypeVars
  /\ UNCHANGED <<tpc, tres, tin, tshut, kin, kshut, peerSent>>

\* Periphery's handle_passkey_login: socket.recv_bytes().await for the
\* passkey, the comparison, and the Successful answer.
PeripheryRecvPasskey(sent) ==
  /\ kpc = "recvPasskey"
  /\ RecvReturns(kin, kshut, PlainRecvTimed)
  /\ IF kin # <<>> /\ Head(kin) = "goodPasskey" /\ sent
       THEN kpc' = "done" /\ kres' = "Ok"
       ELSE kpc' = "fail" /\ UNCHANGED kres
  /\ kin' = IF kin = <<>> THEN kin ELSE Tail(kin)
  /\ UNCHANGED notLoginTypeVars
  /\ UNCHANGED <<tpc, tres, tin, tshut, kshut, peerSent>>

\* Periphery's handle_passkey_login, Err: send Failed, close, return the
\* error.
PeripheryPasskeyFailed ==
  /\ kpc = "fail"
  /\ kpc' = "done"
  /\ kres' = "Err"
  /\ UNCHANGED notLoginTypeVars
  /\ UNCHANGED <<tpc, tres, tin, tshut, kin, kshut, peerSent>>

\* Core's peer sends it a frame.
PeerSendsToCore(frame) ==
  /\ peerSent < MaxPeerFrames
  /\ ~tshut
  /\ tres = "none"
  /\ tin' = Append(tin, frame)
  /\ peerSent' = peerSent + 1
  /\ UNCHANGED notLoginTypeVars
  /\ UNCHANGED <<tpc, tres, tshut, kpc, kres, kin, kshut>>

\* Periphery's peer sends it a frame.
PeerSendsToPeriphery(frame) ==
  /\ peerSent < MaxPeerFrames
  /\ ~kshut
  /\ kres = "none"
  /\ kin' = Append(kin, frame)
  /\ peerSent' = peerSent + 1
  /\ UNCHANGED notLoginTypeVars
  /\ UNCHANGED <<tpc, tres, tin, tshut, kpc, kres, kshut>>

\* Core's peer closes the socket.
PeerClosesCore ==
  /\ ~tshut
  /\ tres = "none"
  /\ tshut' = TRUE
  /\ UNCHANGED notLoginTypeVars
  /\ UNCHANGED <<tpc, tres, tin, kpc, kres, kin, kshut, peerSent>>

\* Periphery's peer closes the socket.
PeerClosesPeriphery ==
  /\ ~kshut
  /\ kres = "none"
  /\ kshut' = TRUE
  /\ UNCHANGED notLoginTypeVars
  /\ UNCHANGED <<tpc, tres, tin, tshut, kpc, kres, kin, peerSent>>

\* The steps of the two login tasks; the runtime keeps scheduling a task
\* that can run.
CoreLoginStep ==
  \/ CoreRecvType
  \/ \E ok \in BOOLEAN : CoreNoiseLogin(ok)
  \/ \E sent \in BOOLEAN : CoreSendPasskey(sent)
  \/ CoreRecvState
  \/ CorePasskeyFailed

PeripheryLoginStep ==
  \/ \E noise, sent \in BOOLEAN : PeripherySendType(noise, sent)
  \/ \E ok \in BOOLEAN : PeripheryNoiseLogin(ok)
  \/ \E sent \in BOOLEAN : PeripheryRecvPasskey(sent)
  \/ PeripheryPasskeyFailed

NextLoginType ==
  \/ CoreRecvType
  \/ \E ok \in BOOLEAN : CoreNoiseLogin(ok)
  \/ \E sent \in BOOLEAN : CoreSendPasskey(sent)
  \/ CoreRecvState
  \/ CorePasskeyFailed
  \/ \E noise, sent \in BOOLEAN : PeripherySendType(noise, sent)
  \/ \E ok \in BOOLEAN : PeripheryNoiseLogin(ok)
  \/ \E sent \in BOOLEAN : PeripheryRecvPasskey(sent)
  \/ PeripheryPasskeyFailed
  \/ \E frame \in CoreFrames : PeerSendsToCore(frame)
  \/ \E frame \in PeripheryFrames : PeerSendsToPeriphery(frame)
  \/ PeerClosesCore
  \/ PeerClosesPeriphery

-----------------------------------------------------------------------------
(***************************************************************************)
(* SpecAttempt.  The end of a login on Core: validate() compares the key   *)
(* the peer offered with the server's configured key; a rejected key is    *)
(* handed to a spawned task that writes it to info.attempted_public_key,   *)
(* and the login flow answers Failed and closes the socket.  A successful  *)
(* login spawns a task that clears the field.  The tasks run whenever the  *)
(* runtime schedules them; an update the database refuses is only logged.  *)
(***************************************************************************)
Logins == 1..MaxLogins
Keys == {"k1", "k2"}

InitAttempt ==
  /\ pinned \in Keys \cup {"none"}
  /\ astatus = [h \in Logins |-> "idle"]
  /\ aoffered = [h \in Logins |-> "none"]
  /\ ainbound = [h \in Logins |-> TRUE]
  /\ asent = [h \in Logins |-> "none"]
  /\ aclosed = [h \in Logins |-> FALSE]
  /\ dbTasks = {}
  /\ dbRecord = ""
  /\ dbFailed = {}
  /\ lastSpawned = "none"

\* validate(): the key matches the configured one, or the connection is
\* Core -> Periphery with no key configured.
KeyAccepted(key, inbound) ==
  \/ pinned # "none" /\ key = pinned
  \/ pinned = "none" /\ ~inbound

\* The key the record is given is the configured one.
AttemptedKeyExpected(key) == pinned

\* validate() hands the offered key to spawn_update_attempted_public_key.
AttemptedKey(key) == key

\* PeripheryConnectionArgs::validate for the key a login offers.
AttemptValidate(h, key, inbound) ==
  /\ astatus[h] = "idle"
  /\ aoffered' = [aoffered EXCEPT ![h] = key]
  /\ ainbound' = [ainbound EXCEPT ![h] = inbound]
  /\ IF KeyAccepted(key, inbound)
       THEN /\ astatus' = [astatus EXCEPT ![h] = "accepted"]
            /\ UNCHANGED <<dbTasks, lastSpawned>>
       ELSE /\ astatus' = [astatus EXCEPT ![h] = "rejected"]
            /\ dbTasks' = dbTasks \cup {[by |-> h, value |-> AttemptedKey(key)]}
            /\ lastSpawned' = AttemptedKey(key)
  /\ UNCHANGED notAttemptVars
  /\ UNCHANGED <<pinned, asent, aclosed, dbRecord, dbFailed>>

\* The login flow's match on the validator's result: Success, after which
\* handle_login spawns the clearing update; or Failed and the socket closed.
AttemptReply(h) ==
  /\ astatus[h] # "idle"
  /\ asent[h] = "none"
  /\ IF astatus[h] = "accepted"
       THEN /\ asent' = [asent EXCEPT ![h] = "Success"]
            /\ dbTasks' = dbTasks \cup {[by |-> h, value |-> ""]}
            /\ lastSpawned' = ""
            /\ UNCHANGED aclosed
       ELSE /\ asent' = [asent EXCEPT ![h] = "Failed"]
            /\ aclosed' = [aclosed EXCEPT ![h] = TRUE]
            /\ UNCHANGED <<dbTasks, lastSpawned>>
  /\ UNCHANGED notAttemptVars
  /\ UNCHANGED <<pinned, astatus, aoffered, ainbound, dbRecord, dbFailed>>

\* A spawned update task runs: update_one_by_id sets the field, or fails and
\* is logged.
DbUpdate(task, ok) ==
  /\ task \in dbTasks
  /\ dbTasks' = dbTasks \ {task}
  /\ IF ok
       THEN dbRecord' = task.value /\ UNCHANGED dbFailed
       ELSE dbFailed' = dbFailed \cup {task.by} /\ UNCHANGED dbRecord
  /\ UNCHANGED notAttemptVars
  /\ UNCHANGED <<pinned, astatus, aoffered, ainbound, asent, aclosed,
                 lastSpawned>>

\* The steps of the login tasks and of the spawned update tasks.
AttemptStep ==
  \/ \E h \in Logins, key \in Keys, inbound \in BOOLEAN :
       AttemptValidate(h, key, inbound)
  \/ \E h \in Logins : AttemptReply(h)

DbStep == \E task \in dbTasks, ok \in BOOLEAN : DbUpdate(task, ok)

NextAttempt ==
  \/ \E h \in Logins, key \in Keys, inbound \in BOOLEAN :
       AttemptValidate(h, key, inbound)
  \/ \E h \in Logins : AttemptReply(h)
  \/ \E task \in dbTasks, ok \in BOOLEAN : DbUpdate(task, ok)

-----------------------------------------------------------------------------
(***************************************************************************)
(* SpecPrologue.  ConnectionIdentifiers::hash feeds SHA-256 the bytes      *)
(* "noise-wss-v1|" host "|" query "|" accept "|" nonce.  Host is the Host  *)
(* header (or the address's host), query the request's query string,       *)
(* accept the base64 Sec-Websocket-Accept, nonce the responder's random    *)
(* bytes.  The model keeps the byte "|" and one other byte value apart.    *)
(***************************************************************************)
Connections == 1..2
Bar == "|"
HeaderBytes == {"a", Bar}
Base64Bytes == {"a", "b"}

RECURSIVE BytesUpTo(_, _)
BytesUpTo(alphabet, n) ==
  IF n = 0 THEN {<<>>}
  ELSE LET shorter == BytesUpTo(alphabet, n - 1)
       IN  shorter \cup {Append(s, b) : s \in shorter, b \in alphabet}

Hosts == BytesUpTo(HeaderBytes, MaxIdentLen)
Queries == BytesUpTo(HeaderBytes, MaxIdentLen)
Accepts == {<<b>> : b \in Base64Bytes}
Nonces == {<<b>> : b \in HeaderBytes}

Identifiers ==
  [host : Hosts, query : Queries, accept : Accepts, nonce : Nonces]

InitPrologue ==
  /\ idents \in [Connections -> Identifiers]
  /\ hashInput = [c \in Connections |-> <<>>]

\* The bytes hash() passes to Sha256::update, in order.
HashInput(id) ==
  <<"noise-wss-v1", Bar>> \o id.host \o <<Bar>> \o id.query \o <<Bar>>
    \o id.accept \o <<Bar>> \o id.nonce

\* ConnectionIdentifiers::hash for connection c.
Hash(c) ==
  /\ hashInput[c] = <<>>
  /\ hashInput' = [hashInput EXCEPT ![c] = HashInput(idents[c])]
  /\ UNCHANGED notPrologueVars
  /\ UNCHANGED idents

NextPrologue ==
  \/ \E c \in Connections : Hash(c)

-----------------------------------------------------------------------------
(***************************************************************************)
(* SpecFrame.  A transport message is encoded from the inside out, every   *)
(* wrapper appending to the bytes: the login variant byte, the result      *)
(* byte, the option byte, the 16 channel bytes, the transport variant      *)
(* byte.  decode pops them in the reverse order and validates the login    *)
(* contents.  An error travels as the bytes serialize_error_bytes gives    *)
(* it; the model names an error by those bytes.                            *)
(***************************************************************************)
UuidLen == 16
NonceLen == 32

PayloadBytes == {0, 1}
RECURSIVE ByteStrings(_)
ByteStrings(n) ==
  IF n = 0 THEN {<<>>}
  ELSE LET shorter == ByteStrings(n - 1)
       IN  shorter \cup {Append(s, b) : s \in shorter, b \in PayloadBytes}

Uuids == {[i \in 1..UuidLen |-> b] : b \in PayloadBytes}
NonceValues == {[i \in 1..NonceLen |-> b] : b \in PayloadBytes}
LoginKinds ==
  {"Success", "Nonce", "Handshake", "OnboardingFlow", "PublicKey",
   "V1PasskeyFlow", "V1Passkey"}

Msg(variant, channel, option, result, login, flag, data, fail) ==
  [variant |-> variant, channel |-> channel, option |-> option,
   result |-> result, login |-> login, flag |-> flag, data |-> data,
   fail |-> fail]

LoginOk(login, flag, data) ==
  Msg("Login", <<>>, "-", "Ok", login, flag, data, "")
LoginErr(error, fail) ==
  Msg("Login", <<>>, "-", "Err", "-", FALSE, error, fail)
Undecoded(fail) == Msg("Undecoded", <<>>, "-", "-", "-", FALSE, <<>>, fail)
NotDecoded == Undecoded("not decoded")

LoginMessages ==
  {LoginOk("Success", FALSE, <<>>)}
    \cup {LoginOk("Nonce", FALSE, n) : n \in NonceValues}
    \cup {LoginOk("Handshake", FALSE, d) : d \in ByteStrings(MaxPayload)}
    \cup {LoginOk("OnboardingFlow", f, <<>>) : f \in BOOLEAN}
    \cup {LoginOk("PublicKey", FALSE, d) : d \in ByteStrings(MaxPayload)}
    \cup {LoginOk("V1PasskeyFlow", f, <<>>) : f \in BOOLEAN}
    \cup {LoginOk("V1Passkey", FALSE, d) : d \in ByteStrings(MaxPayload)}
    \cup {LoginErr(e, "") : e \in ByteStrings(MaxPayload)}

ChannelMessages ==
  {Msg("Request", c, "-", "-", "-", FALSE, d, "") :
     c \in Uuids, d \in ByteStrings(MaxPayload)}
    \cup {Msg("Response", c, "None", "-", "-", FALSE, <<>>, "") : c \in Uuids}
    \cup {Msg("Response", c, "Some", r, "-", FALSE, d, "") :
            c \in Uuids, r \in {"Ok", "Err"}, d \in ByteStrings(MaxPayload)}
    \cup {Msg("Terminal", c, "-", "-", "-", FALSE, d, "") :
            c \in Uuids, d \in ByteStrings(MaxPayload)}

Messages == LoginMessages \cup ChannelMessages

Last(bytes) == bytes[Len(bytes)]
Pop(bytes) == SubSeq(bytes, 1, Len(bytes) - 1)

\* LoginMessageVariant::as_byte and from_byte.
LoginVariantByte(login) ==
  CASE login = "Success" -> 0
    [] login = "Nonce" -> 1
    [] login = "Handshake" -> 2
    [] login = "OnboardingFlow" -> 3
    [] login = "PublicKey" -> 4
    [] login = "V1PasskeyFlow" -> 5
    [] login = "V1Passkey" -> 6

LoginVariantFromByte(byte) ==
  IF \E k \in LoginKinds : LoginVariantByte(k) = byte
    THEN CHOOSE k \in LoginKinds : LoginVariantByte(k) = byte
    ELSE "unrecognized"

\* TransportMessageVariant::as_byte and from_byte.
TransportVariantByte(variant) ==
  CASE variant = "Login" -> 0
    [] variant = "Request" -> 1
    [] variant = "Response" -> 2
    [] variant = "Terminal" -> 3

TransportVariantFromByte(byte) ==
  CASE byte = 0 -> "Login"
    [] byte = 1 -> "Request"
    [] byte = 2 -> "Response"
    [] byte = 3 -> "Terminal"
    [] OTHER -> "unrecognized"

FlagBytes(flag) == IF flag THEN <<1>> ELSE <<0>>

\* Encode<InnerEncodedLoginMessage> for LoginMessage.
EncodeLoginInner(m) ==
  (IF m.login \in {"OnboardingFlow", "V1PasskeyFlow"}
     THEN FlagBytes(m.flag)
     ELSE m.data) \o <<LoginVariantByte(m.login)>>

\* Encode<EncodedResult<T>> for Result<T>.
EncodeResult(result, okBytes, errorBytes) ==
  IF result = "Ok" THEN okBytes \o <<0>> ELSE errorBytes \o <<1>>

\* Option encoded with the Some byte whatever the option is.
EncodeOptionSomeByte(option, someBytes) == someBytes \o <<0>>

\* Encode<EncodedOption<T>> for Option<T>.
EncodeOption(option, someBytes) ==
  IF option = "Some" THEN someBytes \o <<0>> ELSE <<1>>

\* Encode<EncodedChannel<T>> for WithChannel<T>.
EncodeChannel(channel, dataBytes) == dataBytes \o channel

\* The bytes of the top level variant's contents.
EncodeContents(m) ==
  CASE m.variant = "Login" ->
         EncodeResult(m.result, IF m.result = "Ok" THEN EncodeLoginInner(m)
                                ELSE <<>>, m.data)
    [] m.variant = "Request" -> EncodeChannel(m.channel, m.data)
    [] m.variant = "Response" ->
         EncodeChannel(m.channel,
           EncodeOption(m.option, EncodeResult(m.result, m.data, m.data)))
    [] m.variant = "Terminal" -> EncodeChannel(m.channel, m.data)

\* Encode<EncodedTransportMessage> for DecodedTransportMessage.
Encode(m) == EncodeContents(m) \o <<TransportVariantByte(m.variant)>>

\* Decode<LoginMessage> for InnerEncodedLoginMessage, with its validations.
DecodeLoginInner(bytes) ==
  IF bytes = <<>> THEN LoginErr(<<>>, "Bytes are empty")
  ELSE
    LET login == LoginVariantFromByte(Last(bytes))
        rest == Pop(bytes)
    IN  CASE login = "unrecognized" ->
               LoginErr(<<>>, "unrecognized LoginMessageVariant byte")
          [] login = "Success" -> LoginOk("Success", FALSE, <<>>)
          [] login = "Nonce" ->
               IF Len(rest) = NonceLen THEN LoginOk("Nonce", FALSE, rest)
               ELSE LoginErr(<<>>, "Invalid connection nonce")
          [] login = "Handshake" -> LoginOk("Handshake", FALSE, rest)
          [] login \in {"OnboardingFlow", "V1PasskeyFlow"} ->
               IF rest = <<0>> THEN LoginOk(login, FALSE, <<>>)
               ELSE IF rest = <<1>> THEN LoginOk(login, TRUE, <<>>)
               ELSE LoginErr(<<>>, "unrecognized flag bytes")
          [] login \in {"PublicKey", "V1Passkey"} ->
               IF rest = <<>> THEN LoginErr(<<>>, "Got empty bytes")
               ELSE LoginOk(login, FALSE, rest)

\* Decode<LoginMessage> for EncodedLoginMessage: the result wrapper, then
\* the login message.
DecodeLogin(bytes) ==
  IF bytes = <<>> THEN LoginErr(<<>>, "ResultWrapper bytes cannot be empty")
  ELSE IF Last(bytes) = 0 THEN DecodeLoginInner(Pop(bytes))
  ELSE LoginErr(Pop(bytes), "")

\* EncodedOption::decode_map over EncodedResult: None only on the None
\* byte, otherwise Some of the decoded result.
DecodeResponseData(channel, bytes) ==
  IF bytes = <<>>
    THEN Msg("Response", channel, "Some", "Err", "-", FALSE, <<>>,
             "OptionWrapper bytes cannot be empty")
  ELSE IF Last(bytes) # 0
    THEN Msg("Response", channel, "None", "-", "-", FALSE, <<>>, "")
  ELSE
    LET inner == Pop(bytes)
    IN  IF inner = <<>>
          THEN Msg("Response", channel, "Some", "Err", "-", FALSE, <<>>,
                   "ResultWrapper bytes cannot be empty")
        ELSE Msg("Response", channel, "Some",
                 IF Last(inner) = 0 THEN "Ok" ELSE "Err",
                 "-", FALSE, Pop(inner), "")

\* Decode<WithChannel<T>> for EncodedChannel<T>, then the variant's data.
DecodeChannel(variant, bytes) ==
  IF Len(bytes) < UuidLen
    THEN Undecoded("ChannelMessage bytes too short to include uuid")
  ELSE
    LET channel == SubSeq(bytes, Len(bytes) - UuidLen + 1, Len(bytes))
        data == SubSeq(bytes, 1, Len(bytes) - UuidLen)
    IN  IF variant = "Response" THEN DecodeResponseData(channel, data)
        ELSE Msg(variant, channel, "-", "-", "-", FALSE, data, "")

\* Decode<TransportMessage> for EncodedTransportMessage, then
\* Decode<DecodedTransportMessage> for TransportMessage.
Decode(bytes) ==
  IF bytes = <<>> THEN Undecoded("bytes are empty")
  ELSE
    LET variant == TransportVariantFromByte(Last(bytes))
        rest == Pop(bytes)
    IN  CASE variant = "unrecognized" ->
               Undecoded("unrecognized MessageVariant byte")
          [] variant = "Login" -> DecodeLogin(rest)
          [] OTHER -> DecodeChannel(variant, rest)

InitFrame ==
  /\ plain \in Messages
  /\ wire = <<>>
  /\ received = NotDecoded

QuietFrame == InitFrame /\ plain = LoginOk("Success", FALSE, <<>>)

\* The sender encodes the message.
EncodeMessage ==
  /\ wire = <<>>
  /\ wire' = Encode(plain)
  /\ UNCHANGED notFrameVars
  /\ UNCHANGED <<plain, received>>

\* The receiver decodes the bytes.
DecodeMessage ==
  /\ wire # <<>>
  /\ received = NotDecoded
  /\ received' = Decode(wire)
  /\ UNCHANGED notFrameVars
  /\ UNCHANGED <<plain, wire>>

NextFrame ==
  \/ EncodeMessage
  \/ DecodeMessage

-----------------------------------------------------------------------------
(***************************************************************************)
(* SpecOnboard.  handler() looks the server query up: a known server goes  *)
(* to existing_server_handler, an unknown one that is no ObjectId enters   *)
(* onboard_server_handler, an unknown ObjectId is refused.  The onboarding *)
(* task sends the selector, runs ServerLoginFlow with CreationKeyValidator,*)
(* receives the public key, creates the Server, sends Success, closes and  *)
(* pushes the new id to the key's onboarded list.                          *)
(***************************************************************************)
Upgrades == 1..MaxUpgrades
Times == 0..MaxTime

EmptyQuery == [kind |-> "empty", val |-> 0]
\* The queries of upgrade u: none, the ObjectId of the first server, or the
\* name of its own peer.
ServerQueries(u) ==
  {EmptyQuery, [kind |-> "id", val |-> 1], [kind |-> "name", val |-> u]}

\* ObjectId::from_str(&server_query).is_ok()
IsObjectId(query) == query.kind = "id"

\* id_or_name_filter: the records the query finds.
FoundServers(query) ==
  {s \in oservers :
     \/ query.kind = "name" /\ s.name = query.val
     \/ query.kind = "id" /\ s.id = query.val}

NoVerdict == [verdict |-> "none", used |-> FALSE]

InitOnboard ==
  /\ okey \in [enabled : BOOLEAN, expires : Times]
  /\ onow = 1
  /\ oservers = {}
  /\ onboarded = {}
  /\ opc = [u \in Upgrades |-> "idle"]
  /\ oquery = [u \in Upgrades |-> EmptyQuery]
  /\ ohttp = [u \in Upgrades |-> "none"]
  /\ osent = [u \in Upgrades |-> {}]
  /\ oclosed = [u \in Upgrades |-> "open"]
  /\ overdict = [u \in Upgrades |-> NoVerdict]
  /\ ofailed = [u \in Upgrades |-> "none"]

QuietOnboard == InitOnboard /\ okey = [enabled |-> TRUE, expires |-> 0]

\* The key is accepted although it expires at this very moment.
KeyValidAtExpiry(key, now) ==
  key.enabled /\ (key.expires = 0 \/ key.expires >= now)

\* The key is refused once its onboarded list is not empty.
KeyValidOnce(key, now) ==
  key.enabled /\ (key.expires = 0 \/ key.expires > now) /\ onboarded = {}

\* CreationKeyValidator::validate, the check of a record that was found.
KeyValid(key, now) ==
  key.enabled /\ (key.expires = 0 \/ key.expires > now)

\* An ObjectId that finds no server is handed to the onboarding flow.
RouteOnboardsAny(query, found) ==
  CASE found -> "existing"
    [] OTHER -> "onboard"

\* handler(): the match on the lookup's result.
Route(query, found) ==
  CASE found -> "existing"
    [] ~IsObjectId(query) -> "onboard"
    [] OTHER -> "objectid"

\* handler(): headers, the query, the lookup, the route.
UpgradeRequest(u, query, headersOk) ==
  /\ opc[u] = "idle"
  /\ oquery' = [oquery EXCEPT ![u] = query]
  /\ LET route == CASE ~headersOk -> "headers"
                    [] query = EmptyQuery -> "empty"
                    [] OTHER -> Route(query, FoundServers(query) # {})
     IN  /\ ohttp' = [ohttp EXCEPT ![u] =
                        CASE route = "onboard" -> "upgrade"
                          [] route = "existing" -> "existing"
                          [] OTHER -> "401"]
         /\ opc' = [opc EXCEPT ![u] =
                      IF route = "onboard" THEN "selector" ELSE "done"]
         /\ ofailed' = [ofailed EXCEPT ![u] =
                          IF route \in {"onboard", "existing"} THEN "none"
                          ELSE route]
  /\ UNCHANGED notOnboardVars
  /\ UNCHANGED <<okey, onow, oservers, onboarded, osent, oclosed, overdict>>

\* The task returns: the socket it owns is dropped unless it was closed.
TaskReturns(u, step) ==
  /\ opc' = [opc EXCEPT ![u] = "done"]
  /\ ofailed' = [ofailed EXCEPT ![u] = step]

\* onboard_server_handler: send LoginMessage::OnboardingFlow(true).
OnboardSendSelector(u, sendOk) ==
  /\ opc[u] = "selector"
  /\ IF sendOk
       THEN /\ osent' = [osent EXCEPT ![u] = @ \cup {"OnboardingFlow"}]
            /\ opc' = [opc EXCEPT ![u] = "login"]
            /\ UNCHANGED <<oclosed, ofailed>>
       ELSE /\ TaskReturns(u, "selector")
            /\ oclosed' = [oclosed EXCEPT ![u] = "dropped"]
            /\ UNCHANGED osent
  /\ UNCHANGED notOnboardVars
  /\ UNCHANGED <<okey, onow, oservers, onboarded, oquery, ohttp, overdict>>

\* ServerLoginFlow::login with CreationKeyValidator: the handshake, the
\* lookup of the offered key and its check; Failed and close on any error.
OnboardLogin(u, handshakeOk, keyFound) ==
  /\ opc[u] = "login"
  /\ LET accepted == handshakeOk /\ keyFound /\ KeyValid(okey, onow)
     IN  /\ overdict' = [overdict EXCEPT ![u] =
              IF handshakeOk /\ keyFound
                THEN [verdict |-> IF accepted THEN "Ok" ELSE "Err",
                      used |-> onboarded # {}]
                ELSE @]
         /\ IF accepted
              THEN /\ osent' = [osent EXCEPT ![u] = @ \cup {"LoginSuccess"}]
                   /\ opc' = [opc EXCEPT ![u] = "pubkey"]
                   /\ UNCHANGED <<oclosed, ofailed>>
              ELSE /\ osent' = [osent EXCEPT ![u] = @ \cup {"Failed"}]
                   /\ oclosed' = [oclosed EXCEPT ![u] = "closed"]
                   /\ TaskReturns(u, "login")
  /\ UNCHANGED notOnboardVars
  /\ UNCHANGED <<okey, onow, oservers, onboarded, oquery, ohttp>>

\* recv_login_public_key: on an error the task logs and returns.
OnboardRecvPublicKey(u, recvOk) ==
  /\ opc[u] = "pubkey"
  /\ IF recvOk
       THEN /\ opc' = [opc EXCEPT ![u] = "create"]
            /\ UNCHANGED <<oclosed, ofailed>>
       ELSE /\ TaskReturns(u, "pubkey")
            /\ oclosed' = [oclosed EXCEPT ![u] = "dropped"]
  /\ UNCHANGED notOnboardVars
  /\ UNCHANGED <<okey, onow, oservers, onboarded, oquery, ohttp, osent,
                 overdict>>

\* create_server_maybe_builder: the new record, or send_login_error and
\* return.
OnboardCreateServer(u, createOk, sendOk) ==
  /\ opc[u] = "create"
  /\ IF createOk
       THEN /\ oservers' = oservers \cup {[name |-> oquery[u].val, id |-> u]}
            /\ opc' = [opc EXCEPT ![u] = "success"]
            /\ UNCHANGED <<osent, oclosed, ofailed>>
       ELSE /\ osent' = [osent EXCEPT ![u] =
                           IF sendOk THEN @ \cup {"Failed"} ELSE @]
            /\ oclosed' = [oclosed EXCEPT ![u] = "dropped"]
            /\ TaskReturns(u, "create")
            /\ UNCHANGED oservers
  /\ UNCHANGED notOnboardVars
  /\ UNCHANGED <<okey, onow, onboarded, oquery, ohttp, overdict>>

\* Send LoginMessage::Success (a failure is logged) and close the socket.
OnboardSendSuccess(u, sendOk) ==
  /\ opc[u] = "success"
  /\ osent' = [osent EXCEPT ![u] = IF sendOk THEN @ \cup {"Success"} ELSE @]
  /\ oclosed' = [oclosed EXCEPT ![u] = "closed"]
  /\ opc' = [opc EXCEPT ![u] = "push"]
  /\ UNCHANGED notOnboardVars
  /\ UNCHANGED <<okey, onow, oservers, onboarded, oquery, ohttp, overdict,
                 ofailed>>

\* The update leaves the list as it was.
OnboardedUnchanged(list, id) == list

\* "$push": { "onboarded": server_id }
OnboardedAfterPush(list, id) == list \cup {id}

\* update_one: push the server id to the key's onboarded; a failure is
\* logged.
OnboardPush(u, updateOk) ==
  /\ opc[u] = "push"
  /\ onboarded' = IF updateOk THEN OnboardedAfterPush(onboarded, u)
                  ELSE onboarded
  /\ TaskReturns(u, IF updateOk THEN "none" ELSE "push")
  /\ UNCHANGED notOnboardVars
  /\ UNCHANGED <<okey, onow, oservers, oquery, ohttp, osent, oclosed,
                 overdict>>

\* Time passes.
OnboardTick ==
  /\ onow < MaxTime
  /\ onow' = onow + 1
  /\ UNCHANGED notOnboardVars
  /\ UNCHANGED <<okey, oservers, onboarded, opc, oquery, ohttp, osent,
                 oclosed, overdict, ofailed>>

\* The steps of the onboarding tasks.
OnboardStep ==
  \E u \in Upgrades, a, b \in BOOLEAN :
    \/ OnboardSendSelector(u, a)
    \/ OnboardLogin(u, a, b)
    \/ OnboardRecvPublicKey(u, a)
    \/ OnboardCreateServer(u, a, b)
    \/ OnboardSendSuccess(u, a)
    \/ OnboardPush(u, a)

NextOnboard ==
  \/ \E u \in Upgrades, headersOk \in BOOLEAN :
       \E query \in ServerQueries(u) : UpgradeRequest(u, query, headersOk)
  \/ \E u \in Upgrades, sendOk \in BOOLEAN : OnboardSendSelector(u, sendOk)
  \/ \E u \in Upgrades, handshakeOk, keyFound \in BOOLEAN :
       OnboardLogin(u, handshakeOk, keyFound)
  \/ \E u \in Upgrades, recvOk \in BOOLEAN : OnboardRecvPublicKey(u, recvOk)
  \/ \E u \in Upgrades, createOk, sendOk \in BOOLEAN :
       OnboardCreateServer(u, createOk, sendOk)
  \/ \E u \in Upgrades, sendOk \in BOOLEAN : OnboardSendSuccess(u, sendOk)
  \/ \E u \in Upgrades, updateOk \in BOOLEAN : OnboardPush(u, updateOk)
  \/ OnboardTick

-----------------------------------------------------------------------------
(***************************************************************************)
(* SpecSocket.  The task of an outbound connection connects, logs in and   *)
(* runs handle_socket, in a loop that ends when the connection's token is  *)
(* cancelled.  handle_socket joins two futures that share a child of the   *)
(* token.  forward_writes selects between the buffered receiver and the    *)
(* token, sends over the socket, and on leaving its loop                   *)
(* closes the socket and cancels the child token.  handle_reads selects    *)
(* between the socket and the token; a close ends it, a receive error is   *)
(* stored and the loop goes on; on leaving it cancels the child token.     *)
(***************************************************************************)
RecvResults == {"Binary", "Close", "Err"}

\* PeripheryConnection::new, and the task of spawn_client_connection at the
\* top of its loop.
InitSocket ==
  /\ suppc = "connect"
  /\ connects = 0
  /\ sockOpen = FALSE
  /\ sockOuter = FALSE
  /\ sockChild = FALSE
  /\ swpc = "idle"
  /\ srpc = "idle"
  /\ sockOut = 0
  /\ sockIn = <<>>
  /\ sockErr = "none"
  /\ sockConn = FALSE
  /\ readFailed = FALSE

\* cancel.cancelled() of the child token: its own cancel or its parent's.
ChildCancelled == sockChild \/ sockOuter

\* A request or response is put in the connection's sender.
SocketProduce ==
  /\ sockOut < MaxMsgs
  /\ sockOut' = sockOut + 1
  /\ UNCHANGED notSocketVars
  /\ UNCHANGED <<suppc, connects, sockOpen, sockOuter, sockChild, swpc, srpc,
                 sockIn, sockErr, sockConn, readFailed>>

\* The socket has something to hand to ws_read.recv().
SocketReceives(result) ==
  /\ suppc = "socket"
  /\ Len(sockIn) < MaxPeerFrames
  /\ sockIn' = Append(sockIn, result)
  /\ UNCHANGED notSocketVars
  /\ UNCHANGED <<suppc, connects, sockOpen, sockOuter, sockChild, swpc, srpc,
                 sockOut, sockErr, sockConn, readFailed>>

\* PeripheryConnection::cancel, from the registry or a replacement.
OuterCancel ==
  /\ ~sockOuter
  /\ sockOuter' = TRUE
  /\ UNCHANGED notSocketVars
  /\ UNCHANGED <<suppc, connects, sockOpen, sockChild, swpc, srpc, sockOut,
                 sockIn, sockErr, sockConn, readFailed>>

\* The loop's select!: connect_websocket returned before the token was
\* cancelled; an error is stored and the task sleeps
\* CONNECTION_RETRY_SECONDS.
ConnectReturns(ok) ==
  /\ suppc = "connect"
  /\ ~sockOuter
  /\ connects < MaxSockets
  /\ connects' = connects + 1
  /\ IF ok
       THEN /\ suppc' = "login"
            /\ sockOpen' = TRUE
            /\ sockIn' = <<>>
            /\ UNCHANGED sockErr
       ELSE /\ suppc' = "sleep"
            /\ sockErr' = "connect"
            /\ UNCHANGED <<sockOpen, sockIn>>
  /\ UNCHANGED notSocketVars
  /\ UNCHANGED <<sockOuter, sockChild, swpc, srpc, sockOut, sockConn,
                 readFailed>>

\* The loop's select!: connection.cancel.cancelled(); break.
ConnectCancelled ==
  /\ suppc = "connect"
  /\ sockOuter
  /\ suppc' = "exited"
  /\ UNCHANGED notSocketVars
  /\ UNCHANGED <<connects, sockOpen, sockOuter, sockChild, swpc, srpc,
                 sockOut, sockIn, sockErr, sockConn, readFailed>>

\* The sleep is over; continue.
RetrySlept ==
  /\ suppc = "sleep"
  /\ suppc' = "connect"
  /\ UNCHANGED notSocketVars
  /\ UNCHANGED <<connects, sockOpen, sockOuter, sockChild, swpc, srpc,
                 sockOut, sockIn, sockErr, sockConn, readFailed>>

\* connected after join! returned.
ConnectedAfterJoinKept == TRUE
ConnectedAfterJoin == FALSE

\* client_login returned.  Ok: handle_socket takes a child token, sets
\* connected, clears the error and starts its halves.  Err: break if the
\* token is cancelled, else store the error and sleep; the socket is dropped.
ClientLoginReturns(ok) ==
  /\ suppc = "login"
  /\ IF ok
       THEN /\ suppc' = "socket"
            /\ sockChild' = FALSE
            /\ sockConn' = TRUE
            /\ sockErr' = "none"
            /\ swpc' = "select"
            /\ srpc' = "select"
            /\ readFailed' = FALSE
            /\ UNCHANGED sockOpen
       ELSE /\ sockOpen' = FALSE
            /\ suppc' = IF sockOuter THEN "exited" ELSE "sleep"
            /\ sockErr' = IF sockOuter THEN sockErr ELSE "login"
            /\ UNCHANGED <<sockChild, sockConn, swpc, srpc, readFailed>>
  /\ UNCHANGED notSocketVars
  /\ UNCHANGED <<connects, sockOuter, sockOut, sockIn>>

\* forward_writes, select!: receiver.recv() returned a message.
WriterTakes ==
  /\ swpc = "select"
  /\ sockOut > 0
  /\ swpc' = "send"
  /\ UNCHANGED notSocketVars
  /\ UNCHANGED <<suppc, connects, sockOpen, sockOuter, sockChild, srpc,
                 sockOut, sockIn, sockErr, sockConn, readFailed>>

\* forward_writes, select!: cancel.cancelled(); close and cancel.
WriterCancelled ==
  /\ swpc = "select"
  /\ ChildCancelled
  /\ swpc' = "exited"
  /\ sockOpen' = FALSE
  /\ sockChild' = TRUE
  /\ UNCHANGED notSocketVars
  /\ UNCHANGED <<suppc, connects, sockOuter, srpc, sockOut, sockIn, sockErr,
                 sockConn, readFailed>>

\* forward_writes, ws_write.send: clear_buffer, or set_error and break,
\* close and cancel.
WriterSends(ok) ==
  /\ swpc = "send"
  /\ IF ok
       THEN /\ sockOut' = sockOut - 1
            /\ swpc' = "select"
            /\ UNCHANGED <<sockErr, sockChild, sockOpen>>
       ELSE /\ sockErr' = "send"
            /\ swpc' = "exited"
            /\ sockOpen' = FALSE
            /\ sockChild' = TRUE
            /\ UNCHANGED sockOut
  /\ UNCHANGED notSocketVars
  /\ UNCHANGED <<suppc, connects, sockOuter, srpc, sockIn, sockConn,
                 readFailed>>

\* A receive error ends the loop as a close does.
AfterReadErrExits == "exited"

\* handle_reads, the Err arm: set_error, and the loop goes on.
AfterReadErr == "select"

\* handle_reads, select!: ws_read.recv() returned.
ReaderRecv ==
  /\ srpc = "select"
  /\ sockIn # <<>>
  /\ sockIn' = Tail(sockIn)
  /\ LET result == Head(sockIn)
         next == CASE result = "Binary" -> "handling"
                   [] result = "Close" -> "exited"
                   [] result = "Err" -> AfterReadErr
     IN  /\ srpc' = next
         /\ sockErr' = CASE result = "Binary" -> sockErr
                         [] result = "Close" -> "closed"
                         [] result = "Err" -> "read"
         /\ readFailed' = (readFailed \/ result = "Err")
         /\ sockChild' = (sockChild \/ next = "exited")
  /\ UNCHANGED notSocketVars
  /\ UNCHANGED <<suppc, connects, sockOpen, sockOuter, swpc, sockOut,
                 sockConn>>

\* handle_reads: handle_incoming_bytes returned.
ReaderHandled ==
  /\ srpc = "handling"
  /\ srpc' = "select"
  /\ UNCHANGED notSocketVars
  /\ UNCHANGED <<suppc, connects, sockOpen, sockOuter, sockChild, swpc,
                 sockOut, sockIn, sockErr, sockConn, readFailed>>

\* handle_reads, select!: cancel.cancelled(); cancel.
ReaderCancelled ==
  /\ srpc = "select"
  /\ ChildCancelled
  /\ srpc' = "exited"
  /\ sockChild' = TRUE
  /\ UNCHANGED notSocketVars
  /\ UNCHANGED <<suppc, connects, sockOpen, sockOuter, swpc, sockOut, sockIn,
                 sockErr, sockConn, readFailed>>

\* join! returned: set_connected(false); handle_socket returns and the
\* task is at the top of its loop again.
SocketJoined ==
  /\ suppc = "socket"
  /\ swpc = "exited" /\ srpc = "exited"
  /\ sockConn' = ConnectedAfterJoin
  /\ suppc' = "connect"
  /\ UNCHANGED notSocketVars
  /\ UNCHANGED <<connects, sockOpen, sockOuter, sockChild, swpc, srpc,
                 sockOut, sockIn, sockErr, readFailed>>

\* The steps of the two halves, and the task's own steps.  client_login
\* returns when the peer answered or closed.
WriterStep == WriterTakes \/ WriterCancelled \/ \E ok \in BOOLEAN : WriterSends(ok)
ReaderStep == ReaderRecv \/ ReaderHandled \/ ReaderCancelled \/ SocketJoined
SupervisorStep ==
  \/ \E ok \in BOOLEAN : ConnectReturns(ok)
  \/ ConnectCancelled
  \/ RetrySlept

NextSocket ==
  \/ SocketProduce
  \/ \E result \in RecvResults : SocketReceives(result)
  \/ OuterCancel
  \/ \E ok \in BOOLEAN : ConnectReturns(ok)
  \/ ConnectCancelled
  \/ RetrySlept
  \/ \E ok \in BOOLEAN : ClientLoginReturns(ok)
  \/ WriterTakes
  \/ WriterCancelled
  \/ \E ok \in BOOLEAN : WriterSends(ok)
  \/ ReaderRecv
  \/ ReaderHandled
  \/ ReaderCancelled
  \/ SocketJoined

-----------------------------------------------------------------------------
(***************************************************************************)
(* SpecReceiver.  Periphery's handler try-locks the Core's receiver before *)
(* the upgrade and drops the guard at once; after the login the task locks *)
(* it again and holds the guard for as long as handle_socket runs.         *)
(***************************************************************************)
CoreSockets == 1..MaxCoreSockets
NoHolder == 0

InitReceiver ==
  /\ holder = NoHolder
  /\ upc = [c \in CoreSockets |-> "idle"]
  /\ uresp = [c \in CoreSockets |-> "none"]
  /\ uclosed = [c \in CoreSockets |-> FALSE]
  /\ uoutbox = 0
  /\ forwarded = [c \in CoreSockets |-> 0]

\* A try_lock that is given the guard whoever holds it.
TryLockAnyway(h) == TRUE

\* Channel::receiver: try_lock succeeds iff nobody holds the guard.
TryLock(h) == h = NoHolder

\* A response or a ping is put in the Core's channel.
CoreProduce ==
  /\ uoutbox < MaxMsgs
  /\ uoutbox' = uoutbox + 1
  /\ UNCHANGED notReceiverVars
  /\ UNCHANGED <<holder, upc, uresp, uclosed, forwarded>>

\* handler: the receiver must be free before the upgrade; the guard is
\* dropped at once.
PeripheryHandler(c) ==
  /\ upc[c] = "idle"
  /\ IF TryLock(holder)
       THEN /\ upc' = [upc EXCEPT ![c] = "login"]
            /\ UNCHANGED uresp
       ELSE /\ upc' = [upc EXCEPT ![c] = "refused"]
            /\ uresp' = [uresp EXCEPT ![c] = "error"]
  /\ UNCHANGED notReceiverVars
  /\ UNCHANGED <<holder, uclosed, uoutbox, forwarded>>

\* The upgraded task: handle_login returned.
PeripheryLogin(c, ok) ==
  /\ upc[c] = "login"
  /\ upc' = [upc EXCEPT ![c] = IF ok THEN "relock" ELSE "done"]
  /\ UNCHANGED notReceiverVars
  /\ UNCHANGED <<holder, uresp, uclosed, uoutbox, forwarded>>

\* The upgraded task: channel.receiver() again; Err sends a Failed frame,
\* closes the socket and returns, Ok starts handle_socket.
PeripheryRelock(c) ==
  /\ upc[c] = "relock"
  /\ IF TryLock(holder)
       THEN /\ holder' = c
            /\ upc' = [upc EXCEPT ![c] = "socket"]
            /\ UNCHANGED <<uresp, uclosed>>
       ELSE /\ upc' = [upc EXCEPT ![c] = "refused"]
            /\ uresp' = [uresp EXCEPT ![c] = "Failed"]
            /\ uclosed' = [uclosed EXCEPT ![c] = TRUE]
            /\ UNCHANGED holder
  /\ UNCHANGED notReceiverVars
  /\ UNCHANGED <<uoutbox, forwarded>>

\* forward_writes of the socket's handle_socket: receiver.recv(), send.
PeripheryForward(c) ==
  /\ upc[c] = "socket"
  /\ uoutbox > 0
  /\ forwarded[c] < MaxMsgs
  /\ uoutbox' = uoutbox - 1
  /\ forwarded' = [forwarded EXCEPT ![c] = @ + 1]
  /\ UNCHANGED notReceiverVars
  /\ UNCHANGED <<holder, upc, uresp, uclosed>>

\* handle_socket returned: the task ends and the guard is dropped.
PeripherySocketEnds(c) ==
  /\ upc[c] = "socket"
  /\ upc' = [upc EXCEPT ![c] = "done"]
  /\ holder' = IF holder = c THEN NoHolder ELSE holder
  /\ UNCHANGED notReceiverVars
  /\ UNCHANGED <<uresp, uclosed, uoutbox, forwarded>>

NextReceiver ==
  \/ CoreProduce
  \/ \E c \in CoreSockets : PeripheryHandler(c)
  \/ \E c \in CoreSockets, ok \in BOOLEAN : PeripheryLogin(c, ok)
  \/ \E c \in CoreSockets : PeripheryRelock(c)
  \/ \E c \in CoreSockets : PeripheryForward(c)
  \/ \E c \in CoreSockets : PeripherySocketEnds(c)

-----------------------------------------------------------------------------
(***************************************************************************)
(* SpecBail.  bail_if_not_connected polls the connected flag POLL_TIMES    *)
(* times, sleeping 500 ms between polls, and then reads the error cell,    *)
(* while the connection's task sets the flag and the cell.                 *)
(***************************************************************************)
Callers == 1..MaxCallers
CachedErrors == {"e1", "e2"}
PollTimes == 3

InitBail ==
  /\ bconn = FALSE
  /\ berr = "none"
  /\ bpc = [k \in Callers |-> "poll"]
  /\ breads = [k \in Callers |-> <<>>]
  /\ bres = [k \in Callers |-> "none"]

\* set_connected, from handle_socket's entry and exit.
SetConnected(b) ==
  /\ bconn # b
  /\ bconn' = b
  /\ UNCHANGED notBailVars
  /\ UNCHANGED <<berr, bpc, breads, bres>>

\* set_error.
CacheError(e) ==
  /\ berr # e
  /\ berr' = e
  /\ UNCHANGED notBailVars
  /\ UNCHANGED <<bconn, bpc, breads, bres>>

\* clear_error, from handle_socket's entry.
ClearError ==
  /\ berr # "none"
  /\ berr' = "none"
  /\ UNCHANGED notBailVars
  /\ UNCHANGED <<bconn, bpc, breads, bres>>

\* An error that does not carry the cell's content.
ErrorReturnedGeneric(cell) == "NotConnected"

\* The error of the last two arms: the cached error, else a generic one.
ErrorReturned(cell) == IF cell # "none" THEN cell ELSE "NotConnected"

\* One turn of the for loop: self.connected(), return Ok, or go to sleep
\* unless this was the last turn.
BailPoll(k) ==
  /\ bpc[k] = "poll"
  /\ breads' = [breads EXCEPT ![k] = Append(@, bconn)]
  /\ IF bconn
       THEN /\ bres' = [bres EXCEPT ![k] = "Ok"]
            /\ bpc' = [bpc EXCEPT ![k] = "done"]
       ELSE /\ bpc' = [bpc EXCEPT ![k] =
                         IF Len(breads[k]) < PollTimes - 1
                           THEN "sleep" ELSE "error"]
            /\ UNCHANGED bres
  /\ UNCHANGED notBailVars
  /\ UNCHANGED <<bconn, berr>>

\* The 500 ms sleep is over.
BailSlept(k) ==
  /\ bpc[k] = "sleep"
  /\ bpc' = [bpc EXCEPT ![k] = "poll"]
  /\ UNCHANGED notBailVars
  /\ UNCHANGED <<bconn, berr, breads, bres>>

\* After the loop: self.error().await and the Err returned.
BailError(k) ==
  /\ bpc[k] = "error"
  /\ bres' = [bres EXCEPT ![k] = ErrorReturned(berr)]
  /\ bpc' = [bpc EXCEPT ![k] = "done"]
  /\ UNCHANGED notBailVars
  /\ UNCHANGED <<bconn, berr, breads>>

NextBail ==
  \/ \E b \in BOOLEAN : SetConnected(b)
  \/ \E e \in CachedErrors : CacheError(e)
  \/ ClearError
  \/ \E k \in Callers : BailPoll(k)
  \/ \E k \in Callers : BailSlept(k)
  \/ \E k \in Callers : BailError(k)

-----------------------------------------------------------------------------
(***************************************************************************)
(* SpecViewer.  The PTY reader pushes every chunk to the ring history and  *)
(* then broadcasts it.  handle_terminal_forwarding registers the channel   *)
(* and a trigger, waits for the trigger, sends the two slices of the       *)
(* history, resubscribes to the broadcast and forwards what it receives.   *)
(***************************************************************************)
\* The PTY reader's chunks are one byte each, numbered as they are read.
Chunks == 1..MaxMsgs

InitViewer ==
  /\ hist = <<>>
  /\ hhead = 0
  /\ ptyOut = 0
  /\ ptypc = "read"
  /\ tcancel = FALSE
  /\ vpc = "start"
  /\ vtrig = "absent"
  /\ triggerSeen = FALSE
  /\ vparts = <<<<>>, <<>>>>
  /\ vpart = 0
  /\ vsubscribed = FALSE
  /\ vsub = <<>>
  /\ vframes = <<>>
  /\ vchan = FALSE
  /\ vcancel = FALSE

\* History::push of one byte: a full ring drops its oldest byte first.
HistAfterPush(buf, byte) ==
  IF Len(buf) = MaxHistory THEN Append(Tail(buf), byte) ELSE Append(buf, byte)

HeadAfterPush(buf, head) ==
  IF Len(buf) = MaxHistory THEN (head + 1) % MaxHistory ELSE head

\* The two slices given tail first.
BytesPartsSwapped(buf, head) ==
  IF head + Len(buf) <= MaxHistory
    THEN <<<<>>, buf>>
    ELSE <<SubSeq(buf, MaxHistory - head + 1, Len(buf)),
           SubSeq(buf, 1, MaxHistory - head)>>

\* History::bytes_parts: VecDeque::as_slices, the bytes up to the physical
\* end of the ring and the bytes that wrapped to its start.
BytesParts(buf, head) ==
  IF head + Len(buf) <= MaxHistory
    THEN <<buf, <<>>>>
    ELSE <<SubSeq(buf, 1, MaxHistory - head),
           SubSeq(buf, MaxHistory - head + 1, Len(buf))>>

\* The trigger does not hold the task back.
TriggerWaitSkipped(state) == TRUE

\* trigger.wait() returns once the oneshot was sent.
TriggerWaitReturns(state) == state = "fired"

\* The first part from i on that is not empty, else 3: the sends are over.
NextPart(parts, i) ==
  IF i <= 2 /\ parts[i] # <<>> THEN i
  ELSE IF i + 1 <= 2 /\ parts[i + 1] # <<>> THEN i + 1
  ELSE 3

\* PTY reader: terminal_read.read returned a chunk; _history.push.
PtyRead ==
  /\ ptypc = "read" /\ ~tcancel
  /\ ptyOut < MaxMsgs
  /\ ptyOut' = ptyOut + 1
  /\ hist' = HistAfterPush(hist, ptyOut + 1)
  /\ hhead' = HeadAfterPush(hist, hhead)
  /\ ptypc' = "send"
  /\ UNCHANGED notViewerVars
  /\ UNCHANGED <<vchan, vcancel>>
  /\ UNCHANGED <<tcancel, vpc, vtrig, triggerSeen, vparts, vpart,
                 vsubscribed, vsub, vframes>>

\* PTY reader: write.send(chunk) to every subscribed receiver.
PtySend ==
  /\ ptypc = "send"
  /\ ptypc' = "read"
  /\ vsub' = IF vsubscribed THEN Append(vsub, ptyOut) ELSE vsub
  /\ UNCHANGED notViewerVars
  /\ UNCHANGED <<vchan, vcancel>>
  /\ UNCHANGED <<hist, hhead, ptyOut, tcancel, vpc, vtrig, triggerSeen,
                 vparts, vpart, vsubscribed, vframes>>

\* delete_terminal, or the child exited.
DeleteTerminal ==
  /\ ~tcancel
  /\ tcancel' = TRUE
  /\ UNCHANGED notViewerVars
  /\ UNCHANGED <<vchan, vcancel>>
  /\ UNCHANGED <<hist, hhead, ptyOut, ptypc, vpc, vtrig, triggerSeen, vparts,
                 vpart, vsubscribed, vsub, vframes>>

\* handle_message: an empty Terminal frame for the channel;
\* terminal_triggers().send finds the trigger and its unused sender, or warns.
TriggerFrame ==
  /\ triggerSeen' = TRUE
  /\ vtrig' = IF vtrig = "armed" THEN "fired" ELSE vtrig
  /\ UNCHANGED notViewerVars
  /\ UNCHANGED <<vchan, vcancel>>
  /\ UNCHANGED <<hist, hhead, ptyOut, ptypc, tcancel, vpc, vparts, vpart,
                 vsubscribed, vsub, vframes>>

\* handle_terminal_forwarding: the channel and the trigger are inserted.
ViewerInsert ==
  /\ vpc = "start"
  /\ vpc' = "wait"
  /\ vtrig' = "armed"
  /\ vchan' = TRUE
  /\ UNCHANGED notViewerVars
  /\ UNCHANGED vcancel
  /\ UNCHANGED <<hist, hhead, ptyOut, ptypc, tcancel, triggerSeen, vparts,
                 vpart, vsubscribed, vsub, vframes>>

\* handle_terminal_forwarding: trigger.wait() returned Ok; bytes_parts;
\* with an empty history the task resubscribes at once.
ViewerTriggered ==
  /\ vpc = "wait"
  /\ TriggerWaitReturns(vtrig)
  /\ LET parts == BytesParts(hist, hhead)
         next == NextPart(parts, 1)
     IN  /\ vparts' = parts
         /\ vpart' = next
         /\ vpc' = IF next = 3 THEN "live" ELSE "history"
         /\ vsubscribed' = (next = 3)
  /\ UNCHANGED notViewerVars
  /\ UNCHANGED <<vchan, vcancel>>
  /\ UNCHANGED <<hist, hhead, ptyOut, ptypc, tcancel, vtrig, triggerSeen,
                 vsub, vframes>>

\* handle_terminal_forwarding: send_terminal of a history part returned;
\* Err removes the channel and returns, after the last part the task
\* resubscribes.
ViewerSendHistory(ok) ==
  /\ vpc = "history"
  /\ IF ok
       THEN LET next == NextPart(vparts, vpart + 1)
            IN  /\ vframes' = Append(vframes,
                                     [kind |-> "history", data |-> vparts[vpart]])
                /\ vpart' = next
                /\ vpc' = IF next = 3 THEN "live" ELSE "history"
                /\ vsubscribed' = (next = 3)
                /\ UNCHANGED vchan
       ELSE /\ vpc' = "done"
            /\ vchan' = FALSE
            /\ UNCHANGED <<vframes, vpart, vsubscribed>>
  /\ UNCHANGED notViewerVars
  /\ UNCHANGED vcancel
  /\ UNCHANGED <<hist, hhead, ptyOut, ptypc, tcancel, vtrig, triggerSeen,
                 vparts, vsub>>

\* The forwarding loop: stdout.recv() returned a chunk and send_terminal
\* returned; Err cancels the channel and leaves the loop.
ViewerForward(ok) ==
  /\ vpc = "live"
  /\ vsub # <<>>
  /\ vsub' = Tail(vsub)
  /\ IF ok
       THEN /\ vframes' = Append(vframes,
                                 [kind |-> "live", data |-> <<Head(vsub)>>])
            /\ UNCHANGED <<vpc, vchan, vcancel>>
       ELSE /\ vpc' = "done"
            /\ vcancel' = TRUE
            /\ vchan' = FALSE
            /\ UNCHANGED vframes
  /\ UNCHANGED notViewerVars
  /\ UNCHANGED <<hist, hhead, ptyOut, ptypc, tcancel, vtrig, triggerSeen,
                 vparts, vpart, vsubscribed>>

\* The forwarding loop: terminal.cancel.cancelled() or cancel.cancelled();
\* break and clean up: the channel entry, if still there, is removed and
\* its token cancelled.
ViewerCancelled ==
  /\ vpc = "live"
  /\ tcancel \/ vcancel
  /\ vpc' = "done"
  /\ vchan' = FALSE
  /\ vcancel' = (vcancel \/ vchan)
  /\ UNCHANGED notViewerVars
  /\ UNCHANGED <<hist, hhead, ptyOut, ptypc, tcancel, vtrig, triggerSeen,
                 vparts, vpart, vsubscribed, vsub, vframes>>

\* DisconnectTerminal: the channel entry is removed and its token cancelled.
DisconnectTerminal ==
  /\ vchan
  /\ vchan' = FALSE
  /\ vcancel' = TRUE
  /\ UNCHANGED notViewerVars
  /\ UNCHANGED <<hist, hhead, ptyOut, ptypc, tcancel, vpc, vtrig, triggerSeen,
                 vparts, vpart, vsubscribed, vsub, vframes>>

NextViewer ==
  \/ PtyRead
  \/ PtySend
  \/ DeleteTerminal
  \/ TriggerFrame
  \/ ViewerInsert
  \/ ViewerTriggered
  \/ \E ok \in BOOLEAN : ViewerSendHistory(ok)
  \/ \E ok \in BOOLEAN : ViewerForward(ok)
  \/ ViewerCancelled
  \/ DisconnectTerminal

-----------------------------------------------------------------------------
(***************************************************************************)
(* SpecTerminals.  create_terminal holds the write lock of the registry    *)
(* for the whole call, so a call is one step.                              *)
(***************************************************************************)
TerminalNames == {"t1", "t2"}
Commands == {"sh", "top"}
RecreateModes == {"Never", "Always", "DifferentCommand"}
TerminalIds == 1..MaxCreates
NoTerminal == 0
NoCall == [n |-> 0]

InitTerminals ==
  /\ tmap = [name \in TerminalNames |-> NoTerminal]
  /\ tcmd = [t \in TerminalIds |-> "none"]
  /\ tcanc = [t \in TerminalIds |-> FALSE]
  /\ tcalls = 0
  /\ tlast = NoCall

\* DifferentCommand handled as Never is.
DecisionNeverReplaces(recreate, exists, same) ==
  IF recreate \in {"Never", "DifferentCommand"} /\ exists
    THEN IF same THEN "reuse" ELSE "fail"
    ELSE "create"

\* What create_terminal does before Terminal::new, given the mode, whether
\* the name is taken and whether the commands are equal.
Decision(recreate, exists, same) ==
  IF recreate \in {"Never", "DifferentCommand"} /\ exists
    THEN IF same THEN "reuse"
         ELSE IF recreate = "Never" THEN "fail" ELSE "create"
    ELSE "create"

\* create_terminal; Terminal::new may fail to start the command.
CreateTerminal(name, command, recreate, spawnOk) ==
  /\ tcalls < MaxCreates
  /\ tcalls' = tcalls + 1
  /\ LET prev == tmap[name]
         new == tcalls + 1
         decision == Decision(recreate, prev # NoTerminal,
                              prev # NoTerminal /\ tcmd[prev] = command)
         call == [n |-> new, name |-> name, command |-> command,
                  recreate |-> recreate, spawned |-> spawnOk]
     IN  CASE decision = "reuse" ->
                /\ tlast' = call @@ [result |-> "Ok", returned |-> prev]
                /\ UNCHANGED <<tmap, tcmd, tcanc>>
           [] decision = "fail" ->
                /\ tlast' = call @@ [result |-> "Err", returned |-> NoTerminal]
                /\ UNCHANGED <<tmap, tcmd, tcanc>>
           [] decision = "create" /\ ~spawnOk ->
                /\ tlast' = call @@ [result |-> "Err", returned |-> NoTerminal]
                /\ UNCHANGED <<tmap, tcmd, tcanc>>
           [] decision = "create" /\ spawnOk ->
                /\ tlast' = call @@ [result |-> "Ok", returned |-> new]
                /\ tmap' = [tmap EXCEPT ![name] = new]
                /\ tcmd' = [tcmd EXCEPT ![new] = command]
                /\ tcanc' = IF prev # NoTerminal
                              THEN [tcanc EXCEPT ![prev] = TRUE] ELSE tcanc
  /\ UNCHANGED notTerminalsVars

\* The terminal's child exited: its tasks cancel its token.
TerminalExits(t) ==
  /\ tcmd[t] # "none" /\ ~tcanc[t]
  /\ tcanc' = [tcanc EXCEPT ![t] = TRUE]
  /\ UNCHANGED notTerminalsVars
  /\ UNCHANGED <<tmap, tcmd, tcalls, tlast>>

\* clean_up_terminals: cancelled terminals leave the registry.
CleanUpTerminals ==
  /\ \E name \in TerminalNames : tmap[name] # NoTerminal /\ tcanc[tmap[name]]
  /\ tmap' = [name \in TerminalNames |->
                IF tmap[name] # NoTerminal /\ tcanc[tmap[name]]
                  THEN NoTerminal ELSE tmap[name]]
  /\ UNCHANGED notTerminalsVars
  /\ UNCHANGED <<tcmd, tcanc, tcalls, tlast>>

NextTerminals ==
  \/ \E name \in TerminalNames, command \in Commands,
        recreate \in RecreateModes, spawnOk \in BOOLEAN :
       CreateTerminal(name, command, recreate, spawnOk)
  \/ \E t \in TerminalIds : TerminalExits(t)
  \/ CleanUpTerminals

-----------------------------------------------------------------------------
(***************************************************************************)
(* SpecKeys.  RotatePrivateKey generates a pair, writes the private and    *)
(* the public key file and stores the pair in the slot; readers load the   *)
(* slot and use the keys of the pair they loaded.  A key is named by the   *)
(* number of the pair it was generated in.  Core's RotateServerKeys sends  *)
(* the request and pins the public key of the response.                    *)
(***************************************************************************)
KeyReaders == 1..MaxKeyReaders
NoKey == 0
Pair(private, public) == [private |-> private, public |-> public]
NoPair == Pair(NoKey, NoKey)

\* compute_public_key: the public key of a private key.
PublicOf(private) == private

\* periphery_keys(): the pair of the configured or generated private key.
InitKeys ==
  /\ kstatic \in BOOLEAN
  /\ kslot = Pair(1, PublicOf(1))
  /\ kgen = 1
  /\ kfile = IF kstatic THEN NoPair ELSE Pair(1, PublicOf(1))
  /\ krot = "idle"
  /\ knew = NoPair
  /\ ksnap = [r \in KeyReaders |-> NoPair]
  /\ kseen = [r \in KeyReaders |-> NoPair]
  /\ kresp = NoKey
  /\ kreq = FALSE
  /\ kanswer = "none"
  /\ rotpc = "idle"
  /\ rotpin = PublicOf(1)

QuietKeys == InitKeys /\ kstatic

\* A store that replaces the private key and leaves the public key.
KeysStoredPrivateFirst(slot, keys) == Pair(keys.private, slot.public)

\* periphery_keys().store(Arc::new(keys)): the slot points to the new pair.
KeysStored(slot, keys) == keys

\* RotatePrivateKey with a file key: EncodedKeyPair::generate.
RotateGenerate ==
  /\ ~kstatic
  /\ kreq
  /\ krot = "idle"
  /\ kreq' = FALSE
  /\ kgen' = kgen + 1
  /\ knew' = Pair(kgen + 1, PublicOf(kgen + 1))
  /\ krot' = "private"
  /\ UNCHANGED notKeysVars
  /\ UNCHANGED <<kanswer, rotpc, rotpin>>
  /\ UNCHANGED <<kstatic, kslot, kfile, ksnap, kseen, kresp>>

\* generate_write_async: write_pem_async of the private key file.
RotateWritePrivate(ok) ==
  /\ krot = "private"
  /\ IF ok
       THEN /\ kfile' = Pair(knew.private, kfile.public)
            /\ krot' = "public"
            /\ UNCHANGED <<knew, kanswer>>
       ELSE /\ krot' = "idle"
            /\ knew' = NoPair
            /\ kanswer' = "err"
            /\ UNCHANGED kfile
  /\ UNCHANGED notKeysVars
  /\ UNCHANGED <<kreq, rotpc, rotpin>>
  /\ UNCHANGED <<kstatic, kslot, kgen, ksnap, kseen, kresp>>

\* generate_write_async: write_pem_async of the public key file.
RotateWritePublic(ok) ==
  /\ krot = "public"
  /\ IF ok
       THEN /\ kfile' = Pair(kfile.private, knew.public)
            /\ krot' = "store"
            /\ UNCHANGED <<knew, kanswer>>
       ELSE /\ krot' = "idle"
            /\ knew' = NoPair
            /\ kanswer' = "err"
            /\ UNCHANGED kfile
  /\ UNCHANGED notKeysVars
  /\ UNCHANGED <<kreq, rotpc, rotpin>>
  /\ UNCHANGED <<kstatic, kslot, kgen, ksnap, kseen, kresp>>

\* RotatePrivateKey: periphery_keys().store, and the response.
RotateStore ==
  /\ krot = "store"
  /\ kslot' = KeysStored(kslot, knew)
  /\ krot' = "idle"
  /\ knew' = NoPair
  /\ kresp' = knew.public
  /\ kanswer' = "ok"
  /\ UNCHANGED notKeysVars
  /\ UNCHANGED <<kreq, rotpc, rotpin>>
  /\ UNCHANGED <<kstatic, kgen, kfile, ksnap, kseen>>

\* RotatePrivateKey with an inline key: the public key is returned, nothing
\* is rotated.
RotateStatic ==
  /\ kstatic
  /\ kreq
  /\ krot = "idle"
  /\ kreq' = FALSE
  /\ kresp' = PublicOf(kslot.private)
  /\ kanswer' = "ok"
  /\ UNCHANGED notKeysVars
  /\ UNCHANGED <<rotpc, rotpin>>
  /\ UNCHANGED <<kstatic, kslot, kgen, kfile, krot, knew, ksnap, kseen>>

\* A reader's periphery_keys().load().
KeyLoad(r) ==
  /\ ksnap[r] = NoPair
  /\ ksnap' = [ksnap EXCEPT ![r] = kslot]
  /\ UNCHANGED notKeysVars
  /\ UNCHANGED <<kreq, kanswer, rotpc, rotpin>>
  /\ UNCHANGED <<kstatic, kslot, kgen, kfile, krot, knew, kseen, kresp>>

\* The reader uses a key of the pair it loaded.
KeyUse(r, part) ==
  /\ ksnap[r] # NoPair
  /\ kseen[r][part] = NoKey
  /\ kseen' = [kseen EXCEPT ![r][part] = ksnap[r][part]]
  /\ UNCHANGED notKeysVars
  /\ UNCHANGED <<kreq, kanswer, rotpc, rotpin>>
  /\ UNCHANGED <<kstatic, kslot, kgen, kfile, krot, knew, ksnap, kresp>>

\* RotateServerKeys on Core: periphery.request(RotatePrivateKey {}) is sent
\* and reaches Periphery.  One rotation runs at a time here.
CoreRotateRequest ==
  /\ rotpc \in {"idle", "ok", "err"}
  /\ ~kreq /\ krot = "idle"
  /\ kgen <= MaxRotations
  /\ rotpc' = "wait"
  /\ kreq' = TRUE
  /\ kanswer' = "none"
  /\ UNCHANGED notKeysVars
  /\ UNCHANGED <<kstatic, kslot, kgen, kfile, krot, knew, ksnap, kseen, kresp,
                 rotpin>>

\* request() returned Periphery's response: the public key goes on to
\* UpdateServerPublicKey, an error leaves resolve through `?`.
CoreRotateResponse ==
  /\ rotpc = "wait"
  /\ kanswer # "none"
  /\ rotpc' = IF kanswer = "ok" THEN "update" ELSE "err"
  /\ UNCHANGED notKeysVars
  /\ UNCHANGED <<kstatic, kslot, kgen, kfile, krot, knew, ksnap, kseen, kresp,
                 kreq, kanswer, rotpin>>

\* request() returned an error of its own: no frame for 10 s, or the
\* connection is gone.  resolve returns through `?`.
CoreRotateTimeout ==
  /\ rotpc = "wait"
  /\ rotpc' = "err"
  /\ UNCHANGED notKeysVars
  /\ UNCHANGED <<kstatic, kslot, kgen, kfile, krot, knew, ksnap, kseen, kresp,
                 kreq, kanswer, rotpin>>

\* UpdateServerPublicKey: update_server_public_key pins the key of the
\* response, or the database refuses the update.
CoreUpdateKey(ok) ==
  /\ rotpc = "update"
  /\ IF ok
       THEN rotpc' = "ok" /\ rotpin' = kresp
       ELSE rotpc' = "err" /\ UNCHANGED rotpin
  /\ UNCHANGED notKeysVars
  /\ UNCHANGED <<kstatic, kslot, kgen, kfile, krot, knew, ksnap, kseen, kresp,
                 kreq, kanswer>>

NextKeys ==
  \/ RotateGenerate
  \/ \E ok \in BOOLEAN : RotateWritePrivate(ok)
  \/ \E ok \in BOOLEAN : RotateWritePublic(ok)
  \/ RotateStore
  \/ RotateStatic
  \/ \E r \in KeyReaders : KeyLoad(r)
  \/ \E r \in KeyReaders, part \in {"private", "public"} : KeyUse(r, part)
  \/ CoreRotateRequest
  \/ CoreRotateResponse
  \/ CoreRotateTimeout
  \/ \E ok \in BOOLEAN : CoreUpdateKey(ok)

-----------------------------------------------------------------------------
(***************************************************************************)
(* SpecOutbound.  Periphery's outbound handler: a loop that connects,      *)
(* receives the flow indicator, and runs the login and the socket, or the  *)
(* onboarding.  Core is the environment: it answers each step.             *)
(***************************************************************************)
Flows == {"connection", "onboarding", "other", "timeout", "error"}
StepResults == {"Ok", "Failed", "timeout", "error"}

InitOutbound ==
  /\ ppc = "connect"
  /\ psock = FALSE
  /\ pconnects = 0
  /\ ponboards = 0
  /\ plogged = [connection |-> FALSE, login |-> FALSE, onboarding |-> FALSE]
  /\ plast = "none"
  /\ prefused = FALSE

\* The flags after a connection-level failure was (or was not) logged.
LoggedConnection(flags) ==
  IF flags.connection
    THEN flags
    ELSE [connection |-> TRUE, login |-> FALSE, onboarding |-> FALSE]

\* connect_websocket: the socket and the accept header, or the connection
\* error is logged once and the loop sleeps.
HandlerConnect(ok) ==
  /\ ppc = "connect"
  /\ pconnects < MaxOutbound
  /\ pconnects' = pconnects + 1
  /\ IF ok
       THEN /\ ppc' = "flow"
            /\ psock' = TRUE
            /\ UNCHANGED <<plogged, plast>>
       ELSE /\ ppc' = "sleep"
            /\ plogged' = LoggedConnection(plogged)
            /\ plast' = "connect error"
            /\ UNCHANGED psock
  /\ UNCHANGED notOutboundVars
  /\ UNCHANGED <<ponboards, prefused>>

\* socket.recv_bytes().with_timeout(2 s) for the flow indicator and the
\* match on it: [0] starts the login, [1] the onboarding, anything else is
\* logged as a connection error; a receive error is logged and the loop
\* sleeps; the timeout leaves through `?`.
FlowIndicator(flow) ==
  /\ ppc = "flow"
  /\ CASE flow = "timeout" ->
            /\ ppc' = "returned"
            /\ psock' = FALSE
            /\ plast' = "flow timeout"
            /\ UNCHANGED <<plogged, ponboards>>
       [] flow = "error" ->
            /\ ppc' = "sleep"
            /\ psock' = FALSE
            /\ plogged' = LoggedConnection(plogged)
            /\ plast' = "flow error"
            /\ UNCHANGED ponboards
       [] flow = "connection" ->
            /\ ppc' = "login"
            /\ plogged' = [plogged EXCEPT !.connection = FALSE]
            /\ UNCHANGED <<psock, plast, ponboards>>
       [] flow = "onboarding" ->
            /\ ppc' = "onboard"
            /\ ponboards' = ponboards + 1
            /\ plogged' = [plogged EXCEPT !.connection = FALSE]
            /\ UNCHANGED <<psock, plast>>
       [] flow = "other" ->
            /\ ppc' = "sleep"
            /\ psock' = FALSE
            /\ plogged' = IF plogged.connection
                             THEN plogged
                             ELSE [plogged EXCEPT !.connection = TRUE,
                                                  !.login = FALSE]
            /\ plast' = "flow pattern"
            /\ UNCHANGED ponboards
  /\ UNCHANGED notOutboundVars
  /\ UNCHANGED <<pconnects, prefused>>

\* handle_login::<_, ClientLoginFlow>: Ok starts handle_socket, an error
\* (a Failed frame, a timeout of a login frame, a closed socket) is logged
\* once and the loop sleeps.
HandlerLogin(result) ==
  /\ ppc = "login"
  /\ IF result = "Ok"
       THEN /\ ppc' = "socket"
            /\ plogged' = [plogged EXCEPT !.login = FALSE]
            /\ UNCHANGED <<psock, plast>>
       ELSE /\ ppc' = "sleep"
            /\ psock' = FALSE
            /\ plogged' = [plogged EXCEPT !.login = TRUE]
            /\ plast' = IF result = "timeout" THEN "login timeout"
                        ELSE "login error"
  /\ UNCHANGED notOutboundVars
  /\ UNCHANGED <<pconnects, ponboards, prefused>>

\* handle_socket returned: the loop goes round without sleeping.
HandlerSocket ==
  /\ ppc = "socket"
  /\ ppc' = "connect"
  /\ psock' = FALSE
  /\ plast' = "socket ended"
  /\ UNCHANGED notOutboundVars
  /\ UNCHANGED <<pconnects, ponboards, plogged, prefused>>

\* handle_onboarding returned: Ok(()) goes round the loop, an error (Core's
\* Failed, a timeout, a closed socket) is logged once and the loop sleeps.
HandleOnboarding(result) ==
  /\ ppc = "onboard"
  /\ psock' = FALSE
  /\ IF result = "Ok"
       THEN /\ ppc' = "connect"
            /\ plast' = "onboarded"
            /\ UNCHANGED <<plogged, prefused>>
       ELSE /\ ppc' = "sleep"
            /\ plogged' = [plogged EXCEPT !.onboarding = TRUE]
            /\ plast' = CASE result = "Failed" -> "onboarding refused"
                          [] result = "timeout" -> "onboarding timeout"
                          [] OTHER -> "onboarding error"
            /\ prefused' = (prefused \/ result = "Failed")
  /\ UNCHANGED notOutboundVars
  /\ UNCHANGED <<pconnects, ponboards>>

\* tokio::time::sleep(CONNECTION_RETRY_SECONDS) elapsed: continue.
HandlerSlept ==
  /\ ppc = "sleep"
  /\ ppc' = "connect"
  /\ UNCHANGED notOutboundVars
  /\ UNCHANGED <<psock, pconnects, ponboards, plogged, plast, prefused>>

NextOutbound ==
  \/ \E ok \in BOOLEAN : HandlerConnect(ok)
  \/ \E flow \in Flows : FlowIndicator(flow)
  \/ \E result \in StepResults : HandlerLogin(result)
  \/ HandlerSocket
  \/ \E result \in StepResults : HandleOnboarding(result)
  \/ HandlerSlept

-----------------------------------------------------------------------------
(***************************************************************************)
(* The specifications: each subsystem steps on its own.                    *)
(***************************************************************************)
\* A subsystem that takes no part in a specification rests in one state.
QuietConn == InitConn /\ registry = NoConn
QuietAttempt == InitAttempt /\ pinned = "none"
QuietPrologue ==
  /\ InitPrologue
  /\ \A c \in Connections :
       idents[c] = [host |-> <<>>, query |-> <<>>,
                    accept |-> <<"a">>, nonce |-> <<"a">>]

Elsewhere(own) ==
  /\ own = "conn" \/ QuietConn
  /\ own = "buffer" \/ InitBuffer
  /\ own = "request" \/ InitRequest
  /\ own = "rpc" \/ InitRpc
  /\ own = "poll" \/ InitPoll
  /\ own = "login" \/ InitLogin
  /\ own = "type" \/ InitLoginType
  /\ own = "attempt" \/ QuietAttempt
  /\ own = "prologue" \/ QuietPrologue
  /\ own = "frame" \/ QuietFrame
  /\ own = "onboard" \/ QuietOnboard
  /\ own = "socket" \/ InitSocket
  /\ own = "receiver" \/ InitReceiver
  /\ own = "bail" \/ InitBail
  /\ own = "viewer" \/ InitViewer
  /\ own = "terminals" \/ InitTerminals
  /\ own = "keys" \/ QuietKeys
  /\ own = "outbound" \/ InitOutbound

StartConn == InitConn /\ Elsewhere("conn")
StartBuffer == InitBuffer /\ Elsewhere("buffer")
StartRequest == InitRequest /\ Elsewhere("request")
StartRpc == InitRpc /\ Elsewhere("rpc")
StartPoll == InitPoll /\ Elsewhere("poll")
StartLogin == InitLogin /\ Elsewhere("login")
StartLoginType == InitLoginType /\ Elsewhere("type")
StartAttempt == InitAttempt /\ Elsewhere("attempt")
StartPrologue == InitPrologue /\ Elsewhere("prologue")
StartFrame == InitFrame /\ Elsewhere("frame")
StartOnboard == InitOnboard /\ Elsewhere("onboard")
StartSocket == InitSocket /\ Elsewhere("socket")
StartReceiver == InitReceiver /\ Elsewhere("receiver")
StartBail == InitBail /\ Elsewhere("bail")
StartViewer == InitViewer /\ Elsewhere("viewer")
StartTerminals == InitTerminals /\ Elsewhere("terminals")
StartKeys == InitKeys /\ Elsewhere("keys")
StartOutbound == InitOutbound /\ Elsewhere("outbound")

SpecConn == StartConn /\ [][NextConn]_vars
SpecBuffer == StartBuffer /\ [][NextBuffer]_vars
SpecRequest == StartRequest /\ [][NextRequest]_vars
SpecRpc == StartRpc /\ [][NextRpc]_vars
SpecPoll == StartPoll /\ [][NextPoll]_vars
SpecLogin == StartLogin /\ [][NextLogin]_vars
SpecLoginType == StartLoginType /\ [][NextLoginType]_vars
SpecAttempt == StartAttempt /\ [][NextAttempt]_vars
SpecPrologue == StartPrologue /\ [][NextPrologue]_vars
SpecFrame == StartFrame /\ [][NextFrame]_vars
SpecOnboard == StartOnboard /\ [][NextOnboard]_vars
SpecSocket == StartSocket /\ [][NextSocket]_vars
SpecReceiver == StartReceiver /\ [][NextReceiver]_vars
SpecBail == StartBail /\ [][NextBail]_vars
SpecViewer == StartViewer /\ [][NextViewer]_vars
SpecTerminals == StartTerminals /\ [][NextTerminals]_vars
SpecKeys == StartKeys /\ [][NextKeys]_vars
SpecOutbound == StartOutbound /\ [][NextOutbound]_vars
\* The forwarding task and the PTY reader are tasks of the runtime: each is
\* polled while it can take a step, and a select! of the forwarding loop
\* whose cancel branch is ready again and again takes it at some point.
ViewerStep ==
  \/ ViewerInsert
  \/ ViewerTriggered
  \/ \E ok \in BOOLEAN : ViewerSendHistory(ok)
  \/ \E ok \in BOOLEAN : ViewerForward(ok)
  \/ ViewerCancelled
PtyStep == PtyRead \/ PtySend
SpecViewerFair ==
  /\ SpecViewer
  /\ WF_vars(ViewerStep) /\ WF_vars(PtyStep) /\ SF_vars(ViewerCancelled)
SpecSocketFair ==
  /\ SpecSocket
  /\ WF_vars(WriterStep) /\ WF_vars(ReaderStep) /\ WF_vars(SupervisorStep)
  /\ SF_vars(WriterCancelled) /\ SF_vars(ReaderCancelled)
SpecOnboardFair == SpecOnboard /\ WF_vars(OnboardStep)
SpecAttemptFair ==
  SpecAttempt /\ WF_vars(AttemptStep) /\ WF_vars(DbStep)
SpecLoginTypeFair ==
  SpecLoginType /\ WF_vars(CoreLoginStep) /\ WF_vars(PeripheryLoginStep)

-----------------------------------------------------------------------------
(***************************************************************************)
(* Claims about the registry.                                              *)
(***************************************************************************)
\* A connection that insert() has constructed but not yet put in the registry.
InInsert(c) == c \in Handlers /\ hpc[c] = "put"

\* The connections that are live: returned by insert() and not cancelled.
Live == {c \in created : ~cancelled[c] /\ ~InInsert(c)}

C2_AtMostOneLive ==
  /\ Cardinality(Live) <= 1
  /\ \A c \in created : (c # registry /\ ~InInsert(c)) => cancelled[c]

\* C3: an inbound accept that found a registered, disconnected connection
\* (one that was not explicitly removed since) ends up with a connection
\* that shares the found connection's channel map and error cell, the found
\* connection being cancelled.
C3_ReplacementInherits ==
  \A h \in Handlers :
    ( /\ ~address[h]
      /\ hpc[h] \in {"put", "login", "socket", "done"}
      /\ hseen[h] # NoConn
      /\ hseen[h] \notin removed )
    => ( /\ cancelled[hseen[h]]
         /\ chanOf[h] = chanOf[hseen[h]]
         /\ errOf[h] = errOf[hseen[h]] )

-----------------------------------------------------------------------------
(***************************************************************************)
(* Claims about the buffered receiver.                                     *)
(***************************************************************************)
\* C4: a frame the writer had taken but whose send was not confirmed when
\* the socket went down is the first frame written on the next socket.
C4_BufferedResend ==
  (sockUp /\ owed # NoMsg /\ written # <<>>) => written[1] = owed

\* C4 witness: on a later socket the owed frame has been written first while
\* a younger message was already waiting in the channel.
C4_Witness ==
  /\ sockets >= 2 /\ sockUp /\ owed # NoMsg
  /\ Len(written) >= 2 /\ written[1] = owed /\ written[2] > owed

-----------------------------------------------------------------------------
(***************************************************************************)
(* Claims about handle_request.                                            *)
(***************************************************************************)
\* The frames are InProgress frames, except that the last may be terminal.
PingsThenTerminal(fs) ==
  \A i \in 1..Len(fs) : fs[i] \in Terminals => i = Len(fs)

\* The frames hold exactly one terminal frame, and it is the last.
EndsWithOneTerminal(fs) ==
  /\ fs # <<>>
  /\ fs[Len(fs)] \in Terminals
  /\ PingsThenTerminal(fs)

\* C5: every request's task ends having sent InProgress frames
\* followed by exactly one terminal frame.
C5_EveryRequestAnswered ==
  \A r \in Requests :
    /\ PingsThenTerminal(emitted[r])
    /\ rstate[r] \in {"done", "dropped"} => EndsWithOneTerminal(emitted[r])

-----------------------------------------------------------------------------
(***************************************************************************)
(* Claims about PeripheryClient::request.                                  *)
(***************************************************************************)
Returned(q) == qpc[q] = "returned"

C8_ChannelRemovedOnResponse ==
  \A q \in Rpcs :
    qresult[q] \in {"Ok", "Failed"} =>
      /\ q \notin channels
      /\ (\A p \in Rpcs : qpc[p] \in {"idle", "returned"}) => channels = {}

\* The times between consecutive frames on the channel, from the sending of
\* the request to now.
LateGap ==
  LET times == <<0>> \o arrivals \o <<pollClock>>
  IN  \E i \in 1..(Len(times) - 1) :
        times[i + 1] - times[i] >= ResponseTimeoutSecs

\* C7: a request returns ResponseTimeout only if some gap between
\* consecutive frames on its channel (or before the first) reached 10 s.
C7_NoTimeoutWhileFramesArrive ==
  pollResult = "ResponseTimeout" => LateGap

\* C7 witness: two InProgress frames 5 s apart, then a Successful frame after
\* the 10 s of the first window, no gap reaching 10 s: the request returned Ok.
C7_Witness ==
  /\ pollResult = "Ok"
  /\ Len(arrivals) = 3
  /\ arrivals[1] = PingSecs
  /\ arrivals[2] = arrivals[1] + PingSecs
  /\ arrivals[3] > ResponseTimeoutSecs
  /\ ~LateGap

-----------------------------------------------------------------------------
(***************************************************************************)
(* Claims about the login flows.                                           *)
(***************************************************************************)
Sent(frames, frame) == \E i \in 1..Len(frames) : frames[i] = frame

\* C9: the responder sends Success only after it read m1 and m3 and its
\* validator accepted the initiator's key; when validation or an earlier
\* step failed it has sent a Failed frame, closed the socket and sent no
\* Success.
C9_SuccessOnlyAfterValidation ==
  /\ Sent(ssent, "Success") => (sread = {"m1", "m3"} /\ svalid = "accepted")
  /\ (sres = "Err" /\ svalid # "accepted") =>
       /\ Sent(ssent, "Failed")
       /\ sclosed
       /\ ~Sent(ssent, "Success")

\* C9 witness: the responder read m1 and m3, its validator rejected the key,
\* and it returned the error having sent Failed and closed the socket.
C9_Witness ==
  /\ sread = {"m1", "m3"}
  /\ svalid = "rejected"
  /\ sres = "Err"
  /\ ssent = <<"nonce", "m2", "Failed">>
  /\ sclosed

\* C10: the initiator sends m3 only after its validator accepted the
\* responder's key read from m2; when that validation fails it sends no m3.
C10_M3OnlyAfterValidation ==
  /\ Sent(csent, "m3") => ("m2" \in cread /\ cvalid = "accepted")
  /\ cvalid \in {"rejected", "invalidKey"} => ~Sent(csent, "m3")

\* C10 witness: the initiator read m2, its validator rejected the key, and it
\* returned the error without having sent m3.
C10_Witness ==
  /\ "m2" \in cread
  /\ cvalid = "rejected"
  /\ cres = "Err"
  /\ csent = <<"m1", "Failed">>

-----------------------------------------------------------------------------
(***************************************************************************)
(* Claims about the login wrappers.                                        *)
(***************************************************************************)
\* C11: every login attempt ends, with success or with failure, whatever the
\* peer does: both login wrappers return.
C11_LoginTerminates == <>(tres # "none" /\ kres # "none")

-----------------------------------------------------------------------------
(***************************************************************************)
(* Claims about rejected keys.                                             *)
(***************************************************************************)
RejectedInbound(h) == astatus[h] = "rejected" /\ ainbound[h]

\* The login was just rejected: the update validate() spawned has not run.
JustRejected(h) ==
  RejectedInbound(h) /\ \E task \in dbTasks : task.by = h

\* A rejected inbound login that has answered sent Failed and closed.
RejectedAnswersFailed ==
  \A h \in Logins :
    (RejectedInbound(h) /\ asent[h] # "none") =>
      (asent[h] = "Failed" /\ aclosed[h])

\* C12: an inbound login whose key is rejected ends with Failed and the
\* socket closed, and the record eventually holds exactly the offered key.
C12_RejectedKeyRecorded ==
  /\ []RejectedAnswersFailed
  /\ \A h \in Logins :
       /\ RejectedInbound(h) ~> (asent[h] = "Failed" /\ aclosed[h])
       /\ JustRejected(h) ~> (dbRecord = aoffered[h])

\* C12 amended: ... the record eventually holds exactly the offered key
\* unless the database refused that update, which is only logged.
C12_RejectedKeyRecordedUnlessRefused ==
  /\ []RejectedAnswersFailed
  /\ \A h \in Logins :
       /\ RejectedInbound(h) ~> (asent[h] = "Failed" /\ aclosed[h])
       /\ JustRejected(h) ~> (dbRecord = aoffered[h] \/ h \in dbFailed)

\* C12 witness: a rejected inbound login answered Failed, closed, and its
\* offered key is in the record.
C12_Witness ==
  \E h \in Logins :
    /\ RejectedInbound(h)
    /\ asent[h] = "Failed" /\ aclosed[h]
    /\ dbRecord = aoffered[h]
    /\ h \notin dbFailed
    /\ \A task \in dbTasks : task.by # h

-----------------------------------------------------------------------------
-----------------------------------------------------------------------------
(***************************************************************************)
(* Claims about frames.                                                    *)
(***************************************************************************)
\* C14: every message of every variant and sub-variant, with every payload
\* including the empty one, decodes from its encoding to itself.
C14_RoundTrip == received # NotDecoded => received = plain

\* A login message whose decoder refuses an empty payload.
EmptyKey(m) ==
  /\ m.variant = "Login" /\ m.result = "Ok"
  /\ m.login \in {"PublicKey", "V1Passkey"}
  /\ m.data = <<>>

\* C14 amended: every message decodes from its encoding to itself, except
\* Login PublicKey and V1Passkey with an empty payload, which decode to a
\* login error.
C14_RoundTripUnlessEmptyKey ==
  received # NotDecoded =>
    IF EmptyKey(plain)
      THEN received = LoginErr(<<>>, "Got empty bytes")
      ELSE received = plain

\* C14 witness: a response carrying Some(Ok) of an empty payload came back
\* as it was sent.
C14_Witness ==
  /\ plain.variant = "Response" /\ plain.option = "Some"
  /\ plain.result = "Ok" /\ plain.data = <<>>
  /\ received = plain

-----------------------------------------------------------------------------
(***************************************************************************)
(* Claims about onboarding.                                                *)
(***************************************************************************)
\* C15: for a key record that was found, the validator returns Err iff the
\* record is not enabled or (expires # 0 and expires <= now).
C15_ValidatorVerdict ==
  [][\A u \in Upgrades :
       (overdict[u].verdict = "none" /\ overdict'[u].verdict # "none") =>
         (overdict'[u].verdict = "Err" <=>
            (~okey.enabled \/ (okey.expires # 0 /\ okey.expires <= onow)))]_vars

\* C15 witness: a key expiring at this very moment was refused.
C15_Witness ==
  \E u \in Upgrades :
    /\ overdict[u].verdict = "Err" /\ opc[u] = "done"
    /\ okey.enabled /\ okey.expires = onow

\* The upgrade's server exists.
ServerCreated(u) == \E s \in oservers : s.id = u

\* Success was sent and the push of the new id is still to run.
SuccessSent(u) == opc[u] = "push" /\ "Success" \in osent[u]

\* C16: when onboarding ends with Success sent, the new server record
\* exists and the key's onboarded list eventually contains the new id.
C16_OnboardedEventually ==
  /\ [](\A u \in Upgrades : "Success" \in osent[u] => ServerCreated(u))
  /\ \A u \in Upgrades : SuccessSent(u) ~> (u \in onboarded)

\* C16 amended: ... the list eventually contains the new id unless the
\* database refused that update, which is only logged.
C16_OnboardedUnlessRefused ==
  /\ [](\A u \in Upgrades : "Success" \in osent[u] => ServerCreated(u))
  /\ \A u \in Upgrades :
       SuccessSent(u) ~> (u \in onboarded \/ ofailed[u] = "push")

\* C16 witness: Success was sent, the server exists and its id is in the
\* key's onboarded list.
C16_Witness ==
  \E u \in Upgrades :
    "Success" \in osent[u] /\ ServerCreated(u) /\ u \in onboarded

\* C17: when the selector send, the login, the public key receive or the
\* server creation fails, the initiator is sent Failed and the socket is
\* closed.
C17_FailureReported ==
  \A u \in Upgrades :
    ofailed[u] \in {"selector", "login", "pubkey", "create"} =>
      ("Failed" \in osent[u] /\ oclosed[u] # "open")

-----------------------------------------------------------------------------
(***************************************************************************)
(* Claims about the halves of a socket.                                    *)
(***************************************************************************)
\* A half failed or left its loop.
HalfDown == swpc = "exited" \/ srpc = "exited" \/ readFailed

\* C20: when either half fails or exits, the other half is cancelled and
\* exits too, and no step of a half cancels the connection's outer token.
C20_SiblingCancelled ==
  /\ [][(sockOuter' # sockOuter) => (swpc' = swpc /\ srpc' = srpc)]_vars
  /\ HalfDown ~> (sockChild /\ swpc = "exited" /\ srpc = "exited")


\* Cancelled while handle_socket runs.
CancelledInSocket == sockOuter /\ suppc = "socket"

\* handle_socket is over: both halves left, socket closed, not connected.
TornDown ==
  swpc = "exited" /\ srpc = "exited" /\ ~sockOpen /\ ~sockConn

\* C21: after the connection's token is cancelled, both halves of a running
\* handle_socket end, the socket is closed, connected becomes false, and
\* the outbound task eventually leaves its loop.
C21_CancelEndsConnection ==
  /\ CancelledInSocket ~> TornDown
  /\ sockOuter ~> (suppc = "exited")


\* ws_read.recv() returns an error or a close in this step.
ReadEnds ==
  /\ srpc = "select" /\ sockIn # <<>>
  /\ sockIn' = Tail(sockIn)
  /\ Head(sockIn) \in {"Err", "Close"}

\* C28: when the reader's receive returns an error or a close, the error is
\* stored and the child token cancelled, so that the writer stops and
\* handle_socket returns.
C28_ReadEndCancels ==
  /\ [][ReadEnds => (sockErr' \in {"read", "closed"} /\ sockChild')]_vars
  /\ (suppc = "socket" /\ sockErr \in {"read", "closed"})
       ~> (swpc = "exited" /\ ~sockConn)

\* Both halves of the running handle_socket have left their loops.
BothExited == suppc = "socket" /\ swpc = "exited" /\ srpc = "exited"

\* C29: once both halves have exited, connected is false, and unless the
\* token is cancelled the outbound task is at its next connect attempt.
C29_RearmsAfterJoin ==
  /\ [](suppc # "socket" => ~sockConn)
  /\ [][(suppc = "socket" /\ suppc' # "socket") =>
          (BothExited /\ ~sockConn' /\ suppc' = "connect")]_vars
  /\ (BothExited /\ ~sockOuter) ~> (~sockConn /\ suppc = "connect")

\* C29 witness: after a handle_socket ended, the task, not cancelled, made
\* its next connect and is in the login of the new socket.
C29_Witness ==
  /\ connects >= 2 /\ suppc = "login" /\ sockOpen
  /\ swpc = "exited" /\ srpc = "exited"
  /\ ~sockOuter /\ ~sockConn

-----------------------------------------------------------------------------
(***************************************************************************)
(* Claims about the Core's receiver on Periphery.                          *)
(***************************************************************************)
\* The sockets whose handle_socket runs.
Draining == {c \in CoreSockets : upc[c] = "socket"}

\* Socket c tries the lock in this step.
TriesLock(c) == upc[c] \in {"idle", "relock"} /\ upc'[c] # upc[c]

\* C22: at most one socket at a time drains the Core's receiver; a socket
\* that tries the lock while another holds it is refused, and a refused
\* socket forwards none of the Core's messages.
C22_OneDrainer ==
  /\ [](Cardinality(Draining) <= 1 /\ Draining \subseteq {holder})
  /\ [](\A c \in CoreSockets : upc[c] = "refused" => forwarded[c] = 0)
  /\ [][\A c \in CoreSockets :
          /\ (TriesLock(c) /\ holder # NoHolder) =>
               (upc'[c] = "refused" /\ uresp'[c] \in {"error", "Failed"})
          /\ forwarded'[c] # forwarded[c] => holder = c]_vars

\* C22 witness: while one socket drained the receiver and had forwarded a
\* message, another that had logged in was refused with a Failed frame.
C22_Witness ==
  \E c, d \in CoreSockets :
    /\ upc[c] = "socket" /\ holder = c /\ forwarded[c] > 0
    /\ upc[d] = "refused" /\ uresp[d] = "Failed" /\ uclosed[d]
    /\ forwarded[d] = 0

-----------------------------------------------------------------------------
(***************************************************************************)
(* Claims about bail_if_not_connected.                                     *)
(***************************************************************************)
\* Every read before the last saw false.
FalseBeforeLast(reads) == \A i \in 1..(Len(reads) - 1) : ~reads[i]

\* C23: bail_if_not_connected reads connected at most 3 times, returns Ok
\* as soon as a read sees true, and returns an error only after 3 reads
\* that saw false: the cached error if one is stored when it is read.
C23_PollsThenBails ==
  /\ [](\A k \in Callers :
          /\ Len(breads[k]) <= 3
          /\ FalseBeforeLast(breads[k])
          /\ (breads[k] # <<>> /\ breads[k][Len(breads[k])]) <=>
                bres[k] = "Ok"
          /\ bres[k] \notin {"none", "Ok"} =>
               (Len(breads[k]) = 3 /\ ~breads[k][3]))
  /\ [][\A k \in Callers :
          (bres[k] = "none" /\ bres'[k] \notin {"none", "Ok"} /\ berr # "none")
            => bres'[k] = berr]_vars

\* C23 witness: one caller saw false three times and returned the cached
\* error, another saw true at its third read and returned Ok.
C23_Witness ==
  \E k, j \in Callers :
    /\ breads[k] = <<FALSE, FALSE, FALSE>> /\ bres[k] \in CachedErrors
    /\ breads[j] = <<FALSE, FALSE, TRUE>> /\ bres[j] = "Ok"

-----------------------------------------------------------------------------
(***************************************************************************)
(* Claims about a viewer channel.                                          *)
(***************************************************************************)
\* C24: no Terminal frame, history or live, is sent on a viewer channel
\* before the begin trigger for the channel was received.
C24_NothingBeforeTrigger ==
  /\ [](vframes # <<>> => (triggerSeen /\ vtrig = "fired"))
  /\ [][vframes' # vframes => triggerSeen]_vars

\* C24 witness: the trigger was received and fired, and a history frame
\* and another frame were sent after it.
C24_Witness ==
  /\ vtrig = "fired" /\ triggerSeen
  /\ Len(vframes) >= 2
  /\ vframes[1].kind = "history"

\* The frames of the kind, in the order sent.
FramesOf(kind) == SelectSeq(vframes, LAMBDA f : f.kind = kind)

\* The parts that are not empty, first part first.
NonEmptyParts(parts) == SelectSeq(parts, LAMBDA p : p # <<>>)

\* C25: after the trigger the history is sent as at most two frames, ring
\* head then ring tail, and every live frame is sent after them.
C25_HistoryThenLive ==
  /\ [](/\ Len(FramesOf("history")) <= 2
        /\ \A i, j \in 1..Len(vframes) :
             (vframes[i].kind = "live" /\ vframes[j].kind = "history") => j < i
        /\ vpc = "live" =>
             [i \in 1..Len(FramesOf("history")) |-> FramesOf("history")[i].data]
               = NonEmptyParts(vparts))
  /\ [][(vpc = "wait" /\ vpc' # "wait") =>
          (/\ vparts'[1] \o vparts'[2] = hist
           /\ vparts'[1] = <<>> => vparts'[2] = <<>>)]_vars

\* C25 witness: the ring had wrapped: two history frames, head then tail,
\* were followed by a live frame.
C25_Witness ==
  /\ Len(vframes) = 3
  /\ vframes[1].kind = "history" /\ vframes[2].kind = "history"
  /\ vframes[3].kind = "live"
  /\ vframes[1].data \o vframes[2].data = <<2, 3>>

-----------------------------------------------------------------------------
(***************************************************************************)
(* Claims about create_terminal.                                           *)
(***************************************************************************)
\* The registry and the cancel tokens are as they were.
TerminalsUnchanged == tmap' = tmap /\ tcanc' = tcanc /\ tcmd' = tcmd

\* The call registered a new terminal and cancelled the previous one.
Replaced(call, prev) ==
  /\ call.result = "Ok"
  /\ tcmd[call.returned] = "none"
  /\ tmap' = [tmap EXCEPT ![call.name] = call.returned]
  /\ tcmd'[call.returned] = call.command
  /\ ~tcanc'[call.returned]
  /\ prev # NoTerminal => tcanc'[prev]

\* The call found the name taken by a terminal with its command or not.
Mismatch(call, prev) == prev # NoTerminal /\ tcmd[prev] # call.command
Match(call, prev) == prev # NoTerminal /\ tcmd[prev] = call.command

\* C26: Never with a different command fails and leaves the terminal as it
\* is; Never or DifferentCommand with the same command returns the existing
\* terminal unchanged; in every other case a new terminal is registered and
\* the previous one cancelled.
C26_RecreatePolicy ==
  [][tlast' # tlast =>
       LET call == tlast'
           prev == tmap[call.name]
       IN  IF call.recreate = "Never" /\ Mismatch(call, prev)
             THEN call.result = "Err" /\ TerminalsUnchanged
           ELSE IF call.recreate \in {"Never", "DifferentCommand"}
                     /\ Match(call, prev)
             THEN /\ call.result = "Ok" /\ call.returned = prev
                  /\ TerminalsUnchanged
           ELSE Replaced(call, prev)]_vars

\* C26 amended: ... in every other case a new terminal is started; if it
\* starts it is registered and the previous one cancelled, and if it fails
\* to start the call fails and leaves the registry as it is.
C26_RecreatePolicyUnlessSpawnFails ==
  [][tlast' # tlast =>
       LET call == tlast'
           prev == tmap[call.name]
       IN  IF call.recreate = "Never" /\ Mismatch(call, prev)
             THEN call.result = "Err" /\ TerminalsUnchanged
           ELSE IF call.recreate \in {"Never", "DifferentCommand"}
                     /\ Match(call, prev)
             THEN /\ call.result = "Ok" /\ call.returned = prev
                  /\ TerminalsUnchanged
           ELSE IF call.spawned
             THEN Replaced(call, prev)
           ELSE call.result = "Err" /\ TerminalsUnchanged]_vars

\* C26 witness: DifferentCommand replaced a terminal whose command differed:
\* the new one is registered and the previous one cancelled.
C26_Witness ==
  /\ tlast # NoCall
  /\ tlast.recreate = "DifferentCommand" /\ tlast.result = "Ok"
  /\ tlast.returned >= 2
  /\ tmap[tlast.name] = tlast.returned
  /\ \E t \in TerminalIds :
       t < tlast.returned /\ tcanc[t] /\ tcmd[t] \notin {"none", tlast.command}

-----------------------------------------------------------------------------
(***************************************************************************)
(* Claims about the key slot.                                              *)
(***************************************************************************)
\* The keys are of one generated pair.
SamePair(pair) ==
  pair.private \in 1..kgen /\ pair.public = PublicOf(pair.private)

\* C27: during and after a rotation every reader of the slot observes a
\* private and a public key of the same pair, the old one or the new one.
C27_NoTornPair ==
  /\ SamePair(kslot)
  /\ \A r \in KeyReaders :
       /\ ksnap[r] # NoPair => SamePair(ksnap[r])
       /\ (kseen[r].private # NoKey /\ kseen[r].public # NoKey) =>
            SamePair(kseen[r])

\* C27 witness: two readers used both keys, one of the old pair and one of
\* the new pair, the first having loaded before the store and used its keys
\* after it.
C27_Witness ==
  \E r, q \in KeyReaders :
    /\ kslot = Pair(2, 2)
    /\ kseen[r] = Pair(1, 1)
    /\ kseen[q] = Pair(2, 2)


-----------------------------------------------------------------------------
\* Inbound task h's login fails: the step of LoginFail for a connection
\* accepted by existing_server_handler.
InboundLoginFails(h) ==
  /\ ~address[h]
  /\ hpc[h] = "login"
  /\ hpc'[h] = "done"

\* C30: an inbound connection attempt for peer P that does not complete its
\* login leaves P's registered connection as it was before the attempt: when
\* the login fails and the attempt found an entry at its duplicate check,
\* the registry still holds that entry and its cancel token is not cancelled.
C30_FailedLoginKeepsEntry ==
  [][\A h \in Handlers :
       InboundLoginFails(h) /\ hseen[h] # NoConn =>
         /\ registry' = hseen[h]
         /\ ~cancelled'[hseen[h]]]_vars


-----------------------------------------------------------------------------
\* request() returned without a terminal response.
ReturnedWithoutResponse(q) ==
  qresult[q] \in {"ResponseTimeout", "ConnectionDropped", "SerializeError"}

\* C31: whenever request() returned without a terminal response (the
\* response timed out, the sender was dropped, or the request did not
\* serialize), its id is no longer in the connection's channel map.
C31_ChannelRemovedWithoutResponse ==
  \A q \in Rpcs : ReturnedWithoutResponse(q) => q \notin channels


\* C32: a channel entry whose receiver is gone is removed from the
\* connection's channel map the first time a send of an inbound frame to it
\* fails: no id whose send failed is in the map.
C32_StaleSenderRemoved ==
  \A q \in sendFailed : q \notin channels

-----------------------------------------------------------------------------
\* The last step of the outbound handler was a receive of a login-phase
\* frame that timed out.
LoginPhaseTimeout ==
  plast \in {"flow timeout", "login timeout", "onboarding timeout"}

\* C33: on an outbound connection a timeout while receiving a login-phase
\* frame, the flow indicator included, is transient: the handler does not
\* return, it sleeps and goes on to another connection attempt.
C33_TimeoutIsTransient ==
  LoginPhaseTimeout => ppc \in {"sleep", "connect", "flow"}

\* C34: when an onboarding attempt is refused with Failed, the socket is
\* closed, and from then on the handler starts no further onboarding attempt.
C34_NoRetryAfterRefusal ==
  [][/\ (~prefused /\ prefused') => ~psock'
     /\ prefused => ponboards' = ponboards]_vars


-----------------------------------------------------------------------------
\* The forwarding task is past trigger.wait(): it took its history snapshot.
ReplayStarted == vpc \in {"history", "live", "done"}

\* C35: if Core sends the begin trigger for the channel id ConnectTerminal
\* returned, the forwarding task gets it and the history replay eventually
\* starts, however the spawned task is scheduled relative to the frame.
C35_TriggerReachesTask == triggerSeen ~> ReplayStarted

\* The chunks of the live frames sent on the channel, in order.
LiveChunks ==
  LET live == SelectSeq(vframes, LAMBDA f : f.kind = "live")
  IN  [i \in 1..Len(live) |-> live[i].data[1]]

\* The number of the last chunk in the history snapshot, 0 if it was empty.
SnapshotLast ==
  LET snapshot == vparts[1] \o vparts[2]
  IN  IF snapshot = <<>> THEN 0 ELSE snapshot[Len(snapshot)]

\* The PTY reader broadcast every chunk it read, and the forwarding loop
\* forwarded every chunk it received.
AllForwarded == vpc = "live" /\ vsub = <<>> /\ ptypc = "read"

\* C36: every chunk the PTY outputs after the history snapshot is delivered
\* to the viewer exactly once and in order: once everything broadcast was
\* forwarded, the live frames are the chunks after the snapshot's last one.
C36_NoGapAfterSnapshot ==
  AllForwarded =>
    LiveChunks = [i \in 1..(ptyOut - SnapshotLast) |-> SnapshotLast + i]

\* C37: when the terminal is replaced (its token cancelled), the forwarding
\* task attached to it eventually stops and its TerminalChannel entry is
\* gone, and from the replacement on it sends no frame on the channel.
C37_ReplacedStopsViewer ==
  /\ tcancel ~> (vpc = "done" /\ ~vchan)
  /\ [][tcancel => vframes' = vframes]_vars

\* C38: after DisconnectTerminal, or after the forwarding ended for another
\* reason, the forwarding task eventually terminates, and then neither
\* terminal_channels nor terminal_triggers holds an entry for the channel.
C38_ViewerReleased ==
  /\ vcancel ~> (vpc = "done")
  /\ [](vpc = "done" => (~vchan /\ vtrig = "absent"))


-----------------------------------------------------------------------------
\* The update spawned last is the clearing one of a successful login, and
\* every spawned update has run and was applied by the database.
ClearedLastAndWritten ==
  /\ lastSpawned = ""
  /\ dbTasks = {}
  /\ dbFailed = {}

\* C39: after a login of the peer succeeded and all spawned writes of the
\* attempted key have completed, info.attempted_public_key is empty, also
\* when a failed attempt came directly before the successful one.
C39_ClearedAfterSuccess ==
  ClearedLastAndWritten => dbRecord = ""


-----------------------------------------------------------------------------
\* RotateServerKeys returned, with the update or with an error.
RotateFinished == rotpc \in {"ok", "err"}

\* C40: when RotateServerKeys has finished, successfully or with an error
\* (a lost or timed-out response included), the public key Core pins for
\* the server is the public key of the private key Periphery is using.
C40_PinMatchesPeriphery ==
  RotateFinished => rotpin = PublicOf(kslot.private)

=============================================================================
